---- MODULE Spec2Model ----
(***************************************************************************)
(* A model of the Simple Python Fixed-Point Module (FixedPoint.py):        *)
(* FXfamily descriptors, FXnum values, their arithmetic, comparison and    *)
(* conversion operators, and the mathematical functions built on them.     *)
(*                                                                         *)
(* Python's arbitrary-precision integers are modelled by TLA+ integers;    *)
(* '//' is \div (floor division) and '>>' is \div by a power of two, both  *)
(* rounding towards minus infinity as in Python.  An exception is an       *)
(* outcome record whose err field names the exception class.               *)
(***************************************************************************)
EXTENDS Integers, Sequences, FiniteSets, TLC

\* ------------------------------------------------------------------ bounds
\* Largest number of FXfamily instances in the program.
MaxFams == 2
\* Largest |scaledval| of an FXnum the client keeps.
MaxScaled == 4
\* Largest plain integer handed to the library.
MaxPlain == 1
\* Largest shift count handed to << and >>.
MaxShift == 1
\* Iteration budget of each series / Newton loop.
MaxIter == 40

\* ------------------------------------------------------- integer helpers
RECURSIVE Pow2(_)
\* 1 << n for n >= 0
Pow2(n) == IF n <= 0 THEN 1 ELSE 2 * Pow2(n - 1)

\* abs() on Python ints
Abs(v) == IF v < 0 THEN -v ELSE v

\* int() applied to the real number n/d (d > 0): truncation towards zero
TruncDiv(n, d) == IF n >= 0 THEN n \div d ELSE -((-n) \div d)

\* v << k
Shl(v, k) == v * Pow2(k)

\* v >> k (arithmetic shift: floor)
Shr(v, k) == v \div Pow2(k)

\* Python integers are unbounded; the model checker's are 32-bit.  MaxInt is
\* the largest magnitude the model computes with: an operation that needs a
\* larger intermediate value has the outcome "huge" (outside the model).
MaxInt == Pow2(29)

\* a * b is outside the modelled integer range
TooBig(a, b) == a # 0 /\ b # 0 /\ Abs(a) > MaxInt \div Abs(b)

\* "v = <expression>; <statements using v>": the expression is evaluated
\* once and its value is bound to the parameter of rest
With(v, rest(_)) == rest(v)

RECURSIVE BitLen(_)
\* int.bit_length() of n >= 0
BitLen(n) == IF n <= 0 THEN 0 ELSE 1 + BitLen(n \div 2)

\* Python integers wider than the checker's are computed in two halves
Half == Pow2(15)

\* (a * b + r) >> k for a, b >= 0 and 0 <= r < 2^k, the product summed
\* from the halves of a and b
HalvesShr(a, b, r, k) ==
  With(a \div Half, LAMBDA a1 : With(a % Half, LAMBDA a0 :
  With(b \div Half, LAMBDA b1 : With(b % Half, LAMBDA b0 :
    IF k <= 15
    THEN a1 * b1 * Pow2(30 - k) + (a1 * b0 + a0 * b1) * Pow2(15 - k)
           + Shr(a0 * b0 + r, k)
    ELSE IF k <= 30
    THEN a1 * b1 * Pow2(30 - k)
           + Shr(a1 * b0 + a0 * b1 + Shr(a0 * b0 + r, 15), k - 15)
    ELSE Shr(a1 * b1 + Shr(a1 * b0 + a0 * b1 + Shr(a0 * b0 + r, 15), 15),
             k - 30)))))

\* (a * b + r) >> k on Python integers (floor), for 0 <= r < 2^k; a
\* negative product -P is floored as -((P + 2^k - 1 - r) >> k)
MulShr(a, b, r, k) ==
  IF ~TooBig(a, b) THEN Shr(a * b + r, k)
  ELSE IF (a < 0) = (b < 0) THEN HalvesShr(Abs(a), Abs(b), r, k)
  ELSE -HalvesShr(Abs(a), Abs(b), Pow2(k) - 1 - r, k)

RECURSIVE LongShl(_, _, _)
\* The quotient q and the remainder m (0 <= m < d) of a << k by d > 0,
\* shifting as many bits at a time as the checker's integers hold
LongShl(a, k, d) ==
  IF k = 0 THEN [q |-> a \div d, m |-> a % d]
  ELSE With(IF k < 29 - BitLen(d) THEN k ELSE 29 - BitLen(d), LAMBDA c :
       With(LongShl(a, k - c, d), LAMBDA h :
         [q |-> Shl(h.q, c) + Shl(h.m, c) \div d, m |-> Shl(h.m, c) % d]))

RECURSIVE ShlDiv(_, _, _, _)
\* ((a << k) + r) // d on Python integers (floor), d # 0
ShlDiv(a, k, r, d) ==
  IF d < 0 THEN ShlDiv(-a, k, -r, -d)
  ELSE IF ~TooBig(a, Pow2(k)) THEN (Shl(a, k) + r) \div d
  ELSE With(LongShl(a, k, d), LAMBDA h : h.q + (h.m + r) \div d)

\* (a * b + r) // d is outside the modelled integer range
TooBigQuot(a, b, d) ==
  TooBig(a, b)
    /\ (BitLen(Abs(a)) + BitLen(Abs(b)) - BitLen(Abs(d)) > 27 \/ BitLen(Abs(d)) > 27)

\* None and optional values
None == << >>
Some(v) == << v >>
IsNone(o) == o = << >>
Get(o) == o[1]

\* ------------------------------------------------------------- FXfamily
\* The loop of FXfamily.__init__ that sets _augbits: 4 + bit_length(n_bits)
RECURSIVE AugBits(_)
AugBits(nb) == IF nb > 0 THEN 1 + AugBits(nb \div 2) ELSE 4

\* FXfamily(n_bits, n_intbits): a descriptor instance.  id is the identity
\* of the Python object ('is'); thresh is None when the try block raised
\* (n_intbits is None: TypeError; negative shift count: ValueError) and
\* validate() is then the function that accepts everything.
FXfamily(ident, n_bits, n_intbits) ==
  [ id            |-> ident,
    fraction_bits |-> n_bits,
    integer_bits  |-> n_intbits,
    scale         |-> Pow2(n_bits),
    roundup       |-> Pow2(n_bits - 1),
    thresh        |-> IF IsNone(n_intbits) THEN None
                      ELSE IF n_bits + Get(n_intbits) - 1 < 0 THEN None
                      ELSE Some(Pow2(n_bits + Get(n_intbits) - 1)),
    augbits       |-> AugBits(n_bits),
    exp1          |-> None,
    log2          |-> None,
    pi            |-> None,
    sqrt2         |-> None ]

\* Fraction bits of the module's default family (64 in the source; small
\* here so that the model's integers hold every intermediate value)
DefaultBits == 1

\* _defaultFamily = FXfamily()
DefaultFamily == FXfamily(1, DefaultBits, None)

\* family.validate(scaledval): TRUE when it returns, FALSE when it raises
\* FXoverflowError
validate(F, scaledval) ==
  IsNone(F.thresh) \/ ~(scaledval >= Get(F.thresh) \/ scaledval < -Get(F.thresh))

\* The outcome of a comparison: the truth value, or the exception raised
Truth(b) == [err |-> "none", truth |-> b]
RaiseCmp(e) == [err |-> e, truth |-> FALSE]

\* A family comparison that also looks at the integer-bit limit
FamEq_withint(F, G) ==
  F.fraction_bits = G.fraction_bits /\ F.integer_bits = G.integer_bits

\* FXfamily.__eq__ on two families
FamEq(F, G) == F.fraction_bits = G.fraction_bits

\* FXfamily.__ne__ on two families
FamNe(F, G) == F.fraction_bits # G.fraction_bits

\* The object has an attribute fraction_bits
HasFractionBits(other) == "fraction_bits" \in DOMAIN other

\* FXfamily.__eq__ on any object: without fraction_bits the AttributeError
\* is passed and "return false" names a variable that does not exist
FamEqAny(F, other) ==
  IF HasFractionBits(other) THEN Truth(FamEq(F, other)) ELSE RaiseCmp("NameError")

\* FXfamily.__ne__ on any object ("return true")
FamNeAny(F, other) ==
  IF HasFractionBits(other) THEN Truth(FamNe(F, other)) ELSE RaiseCmp("NameError")

\* A conversion that rounds to nearest when it drops fraction bits
Convert_round(self, other, other_val) ==
  LET bit_inc == self.fraction_bits - other.fraction_bits
  IN  IF bit_inc = 0 THEN other_val
      ELSE IF bit_inc > 0
           THEN IF other_val > 0
                THEN Shl(other_val, bit_inc) + Pow2(bit_inc - 1)
                ELSE Shl(other_val, bit_inc) + (Pow2(bit_inc - 1) - 1)
           ELSE Shr(other_val + Pow2(-bit_inc - 1), -bit_inc)

\* self.Convert(other, other_val)
Convert(self, other, other_val) ==
  LET bit_inc == self.fraction_bits - other.fraction_bits
  IN  IF bit_inc = 0 THEN other_val
      ELSE IF bit_inc > 0
           THEN \* the low bit_inc bits of other_val << bit_inc are zero,
                \* so '|=' adds the constant
                IF other_val > 0
                THEN Shl(other_val, bit_inc) + Pow2(bit_inc - 1)
                ELSE Shl(other_val, bit_inc) + (Pow2(bit_inc - 1) - 1)
           ELSE Shr(other_val, -bit_inc)

\* The same Python object seen through two references: the memoised
\* constants filled through either reference are visible through both.
MergeFam(F, G) ==
  IF F.id # G.id THEN F
  ELSE [F EXCEPT !.exp1  = IF IsNone(F.exp1)  THEN G.exp1  ELSE F.exp1,
                 !.log2  = IF IsNone(F.log2)  THEN G.log2  ELSE F.log2,
                 !.pi    = IF IsNone(F.pi)    THEN G.pi    ELSE F.pi,
                 !.sqrt2 = IF IsNone(F.sqrt2) THEN G.sqrt2 ELSE F.sqrt2]

\* ---------------------------------------------------------------- FXnum
\* A plain Python number (int or float): the exact rational num/den
Plain(n, d) == [kind |-> "plain", num |-> n, den |-> d]

\* An FXnum object that exists
Ok(F, sv) == [kind |-> "fx", err |-> "none", family |-> F, scaledval |-> sv]

\* An exception propagating out of an expression
Raise(e, F) == [kind |-> "fx", err |-> e, family |-> F, scaledval |-> 0]

IsOk(v) == v.err = "none"

\* A constructor that does not call validate
Validated_unchecked(F, sv) ==
  IF Abs(sv) > MaxInt THEN Raise("huge", F) ELSE Ok(F, sv)

\* The tail of FXnum.__init__: self.family.validate(self.scaledval)
Validated(F, sv) ==
  IF Abs(sv) > MaxInt THEN Raise("huge", F)
  ELSE IF validate(F, sv) THEN Ok(F, sv) ELSE Raise("FXoverflowError", F)

\* FXnum(family=F, scaled_value=sv)
FXnumScaled(F, sv) == Validated(F, sv)

\* A constructor that rounds val * family.scale to the nearest integer
FXnumPlain_round(val, F) ==
  IF TooBig(val.num, F.scale) THEN Raise("huge", F)
  ELSE Validated(F, (2 * val.num * F.scale + val.den) \div (2 * val.den))

\* FXnum(val, F) for a plain number: int(val * family.scale)
FXnumPlain(val, F) ==
  IF TooBig(val.num, F.scale) THEN Raise("huge", F)
  ELSE Validated(F, TruncDiv(val.num * F.scale, val.den))

\* FXnum(val, F) for an FXnum: family.Convert(val.family, val.scaledval)
FXnumCast(val, F) ==
  IF ~IsOk(val) THEN val
  ELSE IF F.fraction_bits > val.family.fraction_bits
          /\ TooBig(val.scaledval, Pow2(F.fraction_bits - val.family.fraction_bits + 1))
       THEN Raise("huge", F)
  ELSE Validated(MergeFam(F, val.family), Convert(F, val.family, val.scaledval))

\* FXnum(val, F)
FXnum(val, F) == IF val.kind = "fx" THEN FXnumCast(val, F) ELSE FXnumPlain(val, F)

\* A cast that promotes a plain number without validating it
CastOrFail_unvalidated(self, other) ==
  IF other.kind = "fx"
  THEN IF ~IsOk(other) THEN other
       ELSE IF self.family.id # other.family.id
            THEN Raise("FXfamilyError", self.family)
            ELSE other
  ELSE Ok(self.family, TruncDiv(other.num * self.family.scale, other.den))

\* A cast that lets an FXnum of any family through
CastOrFail_nocheck(self, other) ==
  IF other.kind = "fx" THEN other ELSE FXnum(other, self.family)

\* A cast that compares the families with == instead of 'is'
CastOrFail_byeq(self, other) ==
  IF other.kind = "fx"
  THEN IF ~IsOk(other) THEN other
       ELSE IF ~FamEq(self.family, other.family)
            THEN Raise("FXfamilyError", self.family)
            ELSE other
  ELSE FXnum(other, self.family)

\* self._CastOrFail_(other)
CastOrFail(self, other) ==
  IF other.kind = "fx"
  THEN IF ~IsOk(other) THEN other
       ELSE IF self.family.id # other.family.id
            THEN Raise("FXfamilyError", self.family)
            ELSE other
  ELSE FXnum(other, self.family)

\* a // b on Python ints (floor of the quotient, for either sign of b # 0)
FloorDiv(a, b) == IF b > 0 THEN a \div b ELSE (-a) \div (-b)

\* The outcome of an operator whose operand expression raised
Propagate(o, self) == [o EXCEPT !.family = MergeFam(o.family, self.family)]

\* A negation that stores the negated value without validate
Neg_unchecked(self) ==
  IF ~IsOk(self) THEN self ELSE Ok(self.family, -self.scaledval)

\* FXnum.__neg__
Neg(self) ==
  IF ~IsOk(self) THEN self ELSE FXnumScaled(self.family, -self.scaledval)

\* FXnum.__abs__
AbsFX(self) ==
  IF ~IsOk(self) THEN self
  ELSE IF self.scaledval < 0 THEN Neg(self) ELSE self

\* FXnum.__pos__
Pos(self) == self

\* FXnum.__add__
Add(self, other) ==
  IF ~IsOk(self) THEN self
  ELSE With(CastOrFail(self, other), LAMBDA o :
         IF ~IsOk(o) THEN Propagate(o, self)
         ELSE FXnumScaled(MergeFam(self.family, o.family),
                          self.scaledval + o.scaledval))

\* FXnum.__radd__: other + self for a plain number other
RAdd(self, other) ==
  IF ~IsOk(self) THEN self ELSE Add(FXnum(other, self.family), self)

\* FXnum.__sub__
Sub(self, other) ==
  IF ~IsOk(self) THEN self
  ELSE With(CastOrFail(self, other), LAMBDA o :
         IF ~IsOk(o) THEN Propagate(o, self)
         ELSE FXnumScaled(MergeFam(self.family, o.family),
                          self.scaledval - o.scaledval))

\* A reflected subtraction that subtracts the wrong way round
RSub_swapped(self, other) ==
  IF ~IsOk(self) THEN self ELSE Sub(self, FXnum(other, self.family))

\* FXnum.__rsub__: other - self for a plain number other
RSub(self, other) ==
  IF ~IsOk(self) THEN self ELSE Sub(FXnum(other, self.family), self)

\* FXnum.__mul__
Mul(self, other) ==
  IF ~IsOk(self) THEN self
  ELSE With(CastOrFail(self, other), LAMBDA o :
         IF ~IsOk(o) THEN Propagate(o, self)
         ELSE IF TooBigQuot(self.scaledval, o.scaledval, self.family.scale)
              THEN Raise("huge", self.family)
         ELSE FXnumScaled(MergeFam(self.family, o.family),
                          MulShr(self.scaledval, o.scaledval,
                                 self.family.roundup, self.family.fraction_bits)))

\* FXnum.__rmul__: other * self for a plain number other
RMul(self, other) ==
  IF ~IsOk(self) THEN self ELSE Mul(FXnum(other, self.family), self)

\* FXnum.__lshift__
LShift(self, shift) ==
  IF ~IsOk(self) THEN self
  ELSE IF TooBig(self.scaledval, Pow2(shift)) THEN Raise("huge", self.family)
  ELSE FXnumScaled(self.family, Shl(self.scaledval, shift))

\* A shift that builds its result without family=self.family (the
\* default family)
RShift_defaultfam(self, shift) ==
  IF ~IsOk(self) THEN self
  ELSE FXnumScaled(DefaultFamily, Shr(self.scaledval, shift))

\* FXnum.__rshift__
RShift(self, shift) ==
  IF ~IsOk(self) THEN self
  ELSE FXnumScaled(self.family, Shr(self.scaledval, shift))

\* FXnum.__truediv__
TrueDiv(self, other) ==
  IF ~IsOk(self) THEN self
  ELSE With(CastOrFail(self, other), LAMBDA o :
         IF ~IsOk(o) THEN Propagate(o, self)
         ELSE IF o.scaledval = 0
              THEN Raise("ZeroDivisionError", MergeFam(self.family, o.family))
              ELSE IF TooBigQuot(self.scaledval, self.family.scale, o.scaledval)
              THEN Raise("huge", self.family)
              ELSE FXnumScaled(MergeFam(self.family, o.family),
                               ShlDiv(self.scaledval, self.family.fraction_bits,
                                      self.family.roundup, o.scaledval)))

\* FXnum.__rtruediv__: other / self for a plain number other
RTrueDiv(self, other) ==
  IF ~IsOk(self) THEN self ELSE TrueDiv(FXnum(other, self.family), self)

\* ---------------------------------------------------------- comparisons

\* The comparison of self.scaledval with the cast operand's scaledval
CompareWith(self, other, test(_, _)) ==
  IF ~IsOk(self) THEN RaiseCmp(self.err)
  ELSE With(CastOrFail(self, other), LAMBDA o :
         IF ~IsOk(o) THEN RaiseCmp(o.err) ELSE Truth(test(self, o)))

\* FXnum.__eq__
Eq(self, other) ==
  CompareWith(self, other,
              LAMBDA s, o : s.scaledval = o.scaledval /\ FamEq(s.family, o.family))

\* FXnum.__ne__
Ne(self, other) == CompareWith(self, other, LAMBDA s, o : s.scaledval # o.scaledval)

\* FXnum.__ge__
Ge(self, other) == CompareWith(self, other, LAMBDA s, o : s.scaledval >= o.scaledval)

\* FXnum.__gt__
Gt(self, other) == CompareWith(self, other, LAMBDA s, o : s.scaledval > o.scaledval)

\* FXnum.__le__
Le(self, other) == CompareWith(self, other, LAMBDA s, o : s.scaledval <= o.scaledval)

\* FXnum.__lt__
Lt(self, other) == CompareWith(self, other, LAMBDA s, o : s.scaledval < o.scaledval)

\* A cast to integer that takes the floor for either sign
ToInt_floor(self) == self.scaledval \div self.family.scale

\* FXnum.__int__
ToInt(self) ==
  IF self.scaledval >= 0
  THEN self.scaledval \div self.family.scale
  ELSE (self.scaledval + self.family.scale - 1) \div self.family.scale

\* ------------------------------------------------------------- printing
RECURSIVE StrDigits(_, _, _, _)
\* FXnum.__str__, the loop: the digits after the decimal point
StrDigits(frac, scale, idx, cap) ==
  IF idx < cap /\ frac # 0
  THEN << (frac * 10) \div scale >>
         \o StrDigits(frac * 10 - ((frac * 10) \div scale) * scale, scale, idx + 1, cap)
  ELSE << >>

\* A conversion to string that puts no limit on the number of digits
Str_nocap(self) ==
  With(Abs(self.scaledval), LAMBDA val :
  With(val \div self.family.scale, LAMBDA whole :
  With(val - self.family.scale * whole, LAMBDA frac :
    << self.scaledval < 0, whole, frac # 0,
       StrDigits(frac, self.family.scale, 0, self.family.fraction_bits) >>)))

\* FXnum.__str__: the string as the tuple << '-' is there, the integer
\* part, '.' is there, the digits after it >>
Str(self) ==
  With(Abs(self.scaledval), LAMBDA val :
  With(val \div self.family.scale, LAMBDA whole :
  With(val - self.family.scale * whole, LAMBDA frac :
    << self.scaledval < 0, whole, frac # 0,
       StrDigits(frac, self.family.scale, 0, self.family.fraction_bits \div 3) >>)))

\* A representation that leaves out the integer-bit limit
Repr_nolimit(self) ==
  << self.family.fraction_bits, None, self.scaledval >>

\* FXnum.__repr__ (with FXfamily.__repr__): the text as the tuple of the
\* three values it holds, n_bits, n_intbits and scaled_value
Repr(self) ==
  << self.family.fraction_bits, self.family.integer_bits, self.scaledval >>

\* eval() of the text of repr: FXnum(family=FXfamily(n_bits, n_intbits),
\* scaled_value=...), a new FXnum of a new family
EvalRepr(ident, text) ==
  FXnumScaled(FXfamily(ident, text[1], text[2]), text[3])

\* ------------------------------------------------- mathematical functions
\* The result of a loop that has not ended within the iteration budget
Diverged(F) == Raise("diverged", F)

\* "if <comparison>: a else: b", where evaluating the comparison may raise
IfCmp(c, F, a, b) == IF c.err # "none" THEN Raise(c.err, F) ELSE IF c.truth THEN a ELSE b

\* FXfamily.unity
Unity(F) == FXnum(Plain(1, 1), F)

\* FXfamily.zero
Zero(F) == FXnum(Plain(0, 1), F)

\* The augmented-accuracy family of the constants' properties: a fresh
\* instance (no client family has a negative id)
AugFamily(F) == FXfamily(-(F.fraction_bits + F.augbits), F.fraction_bits + F.augbits, None)

\* A cached constant of a family: the value stored on the instance
Cached(F, sv) == Ok(F, sv)

RECURSIVE SqrtGuess(_, _)
\* FXnum.sqrt, first loop: "while val > 0: val >>= 2; rt.scaledval <<= 1"
\* (rt.scaledval is assigned directly: no validate)
SqrtGuess(val, rtval) ==
  IF val > 0 THEN SqrtGuess(Shr(val, 2), Shl(rtval, 1)) ELSE rtval

\* A correction that is not halved: rt - delta is then self / rt
NewtonDelta_unhalved(self, rt) == Sub(rt, TrueDiv(self, rt))

\* FXnum.sqrt, second loop: "delta = (rt - self / rt) >> 1"
NewtonDelta(self, rt) == RShift(Sub(rt, TrueDiv(self, rt)), 1)

RECURSIVE SqrtNewton(_, _, _)
\* FXnum.sqrt, second loop: Newton iteration until delta.scaledval == 0
SqrtNewton(self, rt, fuel) ==
  IF fuel = 0 THEN Diverged(self.family)
  ELSE With(NewtonDelta(self, rt), LAMBDA delta :
       With(Sub(rt, delta), LAMBDA rt2 :
         IF ~IsOk(rt2) THEN rt2
         ELSE IF delta.scaledval = 0 THEN rt2
         ELSE SqrtNewton(self, rt2, fuel - 1)))

\* A square root that answers zero below zero instead of raising
Sqrt_nodomain(self) ==
  IF ~IsOk(self) THEN self
  ELSE IF self.scaledval <= 0 THEN Ok(self.family, 0)
  ELSE With(FXnumScaled(self.family, Pow2(self.family.fraction_bits \div 2)),
            LAMBDA rt :
         IF ~IsOk(rt) THEN rt
         ELSE SqrtNewton(self,
                         Ok(self.family, SqrtGuess(self.scaledval, rt.scaledval)),
                         MaxIter))

\* A square root that stops at the crude first guess
Sqrt_crude(self) ==
  IF ~IsOk(self) THEN self
  ELSE IF self.scaledval < 0 THEN Raise("FXdomainError", self.family)
  ELSE IF self.scaledval = 0 THEN self
  ELSE With(FXnumScaled(self.family, Pow2(self.family.fraction_bits \div 2)),
            LAMBDA rt :
         IF ~IsOk(rt) THEN rt
         ELSE FXnumScaled(self.family, SqrtGuess(self.scaledval, rt.scaledval)))

\* FXnum.sqrt
Sqrt(self) ==
  IF ~IsOk(self) THEN self
  ELSE IF self.scaledval < 0 THEN Raise("FXdomainError", self.family)
  ELSE IF self.scaledval = 0 THEN self
  ELSE With(FXnumScaled(self.family, Pow2(self.family.fraction_bits \div 2)),
            LAMBDA rt :
         IF ~IsOk(rt) THEN rt
         ELSE SqrtNewton(self,
                         Ok(self.family, SqrtGuess(self.scaledval, rt.scaledval)),
                         MaxIter))

RECURSIVE Sqrt2Newton(_, _)
\* FXfamily.sqrt2, the loop: Newton-Raphson on f(x) = 2/(x*x) - 1
Sqrt2Newton(x, fuel) ==
  IF fuel = 0 THEN Diverged(x.family)
  ELSE With(RShift(Mul(x, RSub(Mul(x, x), Plain(2, 1))), 2), LAMBDA delta :
       With(Add(x, delta), LAMBDA x2 :
         IF ~IsOk(x2) THEN x2
         ELSE IF Abs(delta.scaledval) <= 1 THEN x2
         ELSE Sqrt2Newton(x2, fuel - 1)))

\* A property that returns the constant without storing it
Memoise_unstored(F, field, c) == c

\* The tail of a constant's property: "self._c = FXnum(aug, self)" stores
\* the value on the instance (field is the name of the cache slot)
Memoise(F, field, c) ==
  IF ~IsOk(c) THEN c
  ELSE Ok([F EXCEPT ![field] = Some(c.scaledval)], c.scaledval)

\* FXfamily.sqrt2 (property): memoised in self._sqrt2
FamSqrt2(F) ==
  IF ~IsNone(F.sqrt2) THEN Cached(F, Get(F.sqrt2))
  ELSE With(AugFamily(F), LAMBDA augfamily :
         Memoise(F, "sqrt2",
                 FXnum(Sqrt2Newton(RShift(FXnum(Plain(3, 1), augfamily), 1), MaxIter),
                       F)))

RECURSIVE RawExpLoop(_, _, _, _, _)
\* FXnum._rawexp, the loop
RawExpLoop(self, ex, term, idx, fuel) ==
  IF fuel = 0 THEN Diverged(self.family)
  ELSE With(Mul(term, TrueDiv(self, Plain(idx, 1))), LAMBDA term2 :
       With(Add(ex, term2), LAMBDA ex2 :
         IF ~IsOk(ex2) THEN ex2
         ELSE IF term2.scaledval = 0 THEN ex2
         ELSE RawExpLoop(self, ex2, term2, idx + 1, fuel - 1)))

\* FXnum._rawexp
RawExp(self) ==
  IF ~IsOk(self) THEN self
  ELSE With(Unity(self.family), LAMBDA one :
         IF ~IsOk(one) THEN one
         ELSE RawExpLoop(self, one, one, 1, MaxIter))

\* x * x
Square(x) == Mul(x, x)

\* FXfamily.exp1 (property): memoised in self._exp1
FamExp1(F) ==
  IF ~IsNone(F.exp1) THEN Cached(F, Get(F.exp1))
  ELSE With(AugFamily(F), LAMBDA augfamily :
       With(RawExp(FXnum(Plain(1, 1), augfamily)), LAMBDA first :
         IF ~IsOk(first) THEN Raise(first.err, F)
         ELSE Memoise(F, "exp1",
                FXnum(Square(Square(
                        RawExp(RTrueDiv(FXnum(Plain(4, 1), augfamily), Plain(1, 1))))),
                      F))))

RECURSIVE IntPowerLoop(_, _, _, _)
\* FXnum.intpower, the loop: repeated squaring
IntPowerLoop(result, term, pwr, fuel) ==
  IF fuel = 0 THEN Diverged(term.family)
  ELSE With(IF pwr % 2 = 1 THEN Mul(result, term) ELSE result, LAMBDA result2 :
         IF ~IsOk(result2) THEN result2
         ELSE IF pwr \div 2 = 0 THEN result2
         ELSE With(Mul(term, term), LAMBDA term2 :
                IF ~IsOk(term2) THEN term2
                ELSE IntPowerLoop(result2, term2, pwr \div 2, fuel - 1)))

\* FXnum.intpower
IntPower(self, pwr) ==
  IF ~IsOk(self) THEN self
  ELSE With(Unity(self.family), LAMBDA one :
         IF ~IsOk(one) THEN one
         ELSE With(IntPowerLoop(one, self, Abs(pwr), MaxIter), LAMBDA res :
                IF pwr < 0 THEN TrueDiv(FXnum(Plain(1, 1), self.family), res)
                ELSE res))

RECURSIVE RawLogLoop(_, _, _, _, _)
\* FXnum._rawlog, the loop
RawLogLoop(lg, term, z2, idx, fuel) ==
  IF fuel = 0 THEN Diverged(lg.family)
  ELSE With(Add(lg, TrueDiv(term, Plain(idx, 1))), LAMBDA lg2 :
       With(Mul(term, z2), LAMBDA term2 :
         IF ~IsOk(lg2) THEN lg2
         ELSE IF ~IsOk(term2) THEN term2
         ELSE IF term2.scaledval = 0 THEN lg2
         ELSE RawLogLoop(lg2, term2, z2, idx + 2, fuel - 1)))

\* FXnum._rawlog
RawLog(self, isDelta) ==
  IF ~IsOk(self) THEN self
  ELSE With(Zero(self.family), LAMBDA lg :
       With(IF isDelta
            THEN TrueDiv(self, Add(self, Plain(2, 1)))
            ELSE TrueDiv(Sub(self, Plain(1, 1)), Add(self, Plain(1, 1))), LAMBDA z :
       With(RMul(z, Plain(2, 1)), LAMBDA term :
         IF ~IsOk(lg) THEN lg
         ELSE IF ~IsOk(term) THEN term
         ELSE RawLogLoop(lg, term, Mul(z, z), 1, MaxIter))))

\* 3^12, as computed by FXfamily.log2
three12 == (9 * 9 * 9) * (9 * 9 * 9)

\* 2^19, as computed by FXfamily.log2
two19 == Pow2(19)

\* FXfamily.log2 (property): memoised in self._log2
FamLog2(F) ==
  IF ~IsNone(F.log2) THEN Cached(F, Get(F.log2))
  ELSE With(AugFamily(F), LAMBDA augfamily :
       With(RawLog(FXnum(Plain(2, 1), augfamily), FALSE), LAMBDA first :
         IF ~IsOk(first) THEN Raise(first.err, F)
         ELSE Memoise(F, "log2",
                FXnum(Add(RawLog(TrueDiv(FXnum(Plain(two19 - three12, 1), augfamily),
                                         FXnum(Plain(three12, 1), augfamily)),
                                 TRUE),
                          RMul(RawLog(RTrueDiv(FXnum(Plain(8, 1), augfamily),
                                               Plain(1, 1)),
                                      TRUE),
                               Plain(6, 1))),
                      F))))

RECURSIVE RawArctanLoop(_, _, _, _, _, _, _, _)
\* FXnum._rawarctan, the loop.  atn starts as the plain number 1, so the
\* first "atn -= delta" is delta.__rsub__(1).
RawArctanLoop(self, atn, term, omx2, opx2, x4, idx, fuel) ==
  IF fuel = 0 THEN Diverged(self.family)
  ELSE With(TrueDiv(Mul(term, Add(RMul(omx2, Plain(4 * idx, 1)), opx2)),
                    Plain(16 * idx * idx - 1, 1)), LAMBDA delta :
       With(IF atn.kind = "plain" THEN RSub(delta, atn) ELSE Sub(atn, delta),
            LAMBDA atn2 :
       With(Mul(term, x4), LAMBDA term2 :
         IF ~IsOk(atn2) THEN atn2
         ELSE IF ~IsOk(term2) THEN term2
         ELSE IF delta.scaledval = 0 THEN Mul(self, atn2)
         ELSE RawArctanLoop(self, atn2, term2, omx2, opx2, x4, idx + 1, fuel - 1))))

\* FXnum._rawarctan
RawArctan(self) ==
  IF ~IsOk(self) THEN self
  ELSE With(Mul(self, self), LAMBDA x2 :
       With(RSub(x2, Plain(1, 1)), LAMBDA omx2 :
       With(RAdd(x2, Plain(1, 1)), LAMBDA opx2 :
       With(Mul(x2, x2), LAMBDA x4 :
         IF ~IsOk(omx2) THEN omx2
         ELSE IF ~IsOk(opx2) THEN opx2
         ELSE IF ~IsOk(x4) THEN x4
         ELSE RawArctanLoop(self, Plain(1, 1), x2, omx2, opx2, x4, 1, MaxIter)))))

\* FXfamily.pi (property): memoised in self._pi
FamPi(F) ==
  IF ~IsNone(F.pi) THEN Cached(F, Get(F.pi))
  ELSE Memoise(F, "pi",
               FXnum(RMul(RawArctan(Sub(FamSqrt2(AugFamily(F)), Plain(1, 1))),
                          Plain(8, 1)),
                     F))

\* FXnum.log, first loop: "while val > uprthresh: val /= 2; count += 1"
RECURSIVE LogDown(_, _, _, _)
LogDown(val, uprthresh, count, fuel) ==
  IF fuel = 0 THEN [val |-> Diverged(val.family), count |-> count]
  ELSE IF ~IsOk(val) THEN [val |-> val, count |-> count]
  ELSE IF Gt(val, uprthresh).truth
       THEN LogDown(TrueDiv(val, Plain(2, 1)), uprthresh, count + 1, fuel - 1)
       ELSE [val |-> val, count |-> count]

\* FXnum.log, second loop: "while val < lwrthresh: val *= 2; count -= 1"
RECURSIVE LogUp(_, _, _, _)
LogUp(val, lwrthresh, count, fuel) ==
  IF fuel = 0 THEN [val |-> Diverged(val.family), count |-> count]
  ELSE IF ~IsOk(val) THEN [val |-> val, count |-> count]
  ELSE IF Lt(val, lwrthresh).truth
       THEN LogUp(Mul(val, Plain(2, 1)), lwrthresh, count - 1, fuel - 1)
       ELSE [val |-> val, count |-> count]

\* FXnum.log
Log(self) ==
  IF ~IsOk(self) THEN self
  ELSE IF self.scaledval <= 0 THEN Raise("FXdomainError", self.family)
  ELSE With(Eq(self, Plain(1, 1)), LAMBDA isone :
         IF isone.err # "none" THEN Raise(isone.err, self.family)
         ELSE IF isone.truth THEN FXnum(Plain(0, 1), self.family)
         ELSE With(FXnum(Plain(16, 10), self.family), LAMBDA uprthresh :
              With(TrueDiv(uprthresh, Plain(2, 1)), LAMBDA lwrthresh :
                IF ~IsOk(lwrthresh) THEN lwrthresh
                ELSE With(LogDown(self, uprthresh, 0, MaxIter), LAMBDA down :
                     With(LogUp(down.val, lwrthresh, down.count, MaxIter), LAMBDA up :
                       IF ~IsOk(up.val) THEN up.val
                       ELSE Add(RawLog(up.val, FALSE),
                                RMul(FamLog2(self.family), Plain(up.count, 1))))))))

RECURSIVE Exp(_), PowFX(_, _)

\* The tail of FXnum.__pow__: self.intpower(ipwr) * frac
PowTail(self, ipwr, frac) ==
  IF ~IsOk(frac) THEN frac ELSE Mul(IntPower(self, ipwr), frac)

\* FXnum.__pow__ for a plain exponent
PowPlain(self, other) ==
  IF ~IsOk(self) THEN self
  ELSE With(Eq(self, Plain(0, 1)), LAMBDA iszero :
         IF iszero.err # "none" THEN Raise(iszero.err, self.family)
         ELSE IF iszero.truth THEN Unity(self.family)
         ELSE With(TruncDiv(other.num, other.den), LAMBDA ipwr :
                PowTail(self, ipwr,
                        IF other.num - ipwr * other.den = 0
                        THEN Unity(self.family)
                        ELSE Exp(RMul(Log(self),
                                      Plain(other.num - ipwr * other.den,
                                            other.den))))))

\* FXnum.__pow__ for an FXnum exponent
PowFX(self, other) ==
  IF ~IsOk(self) THEN self
  ELSE IF ~IsOk(other) THEN other
  ELSE With(Eq(self, Plain(0, 1)), LAMBDA iszero :
         IF iszero.err # "none" THEN Raise(iszero.err, self.family)
         ELSE IF iszero.truth THEN Unity(self.family)
         ELSE With(Sub(other, Plain(ToInt(other), 1)), LAMBDA rmdr :
              With(Eq(rmdr, Plain(0, 1)), LAMBDA rz :
                PowTail(self, ToInt(other),
                        IF rz.err # "none" THEN Raise(rz.err, self.family)
                        ELSE IF rz.truth THEN Unity(self.family)
                        ELSE Exp(Mul(rmdr, Log(self)))))))

\* FXnum.__pow__
Pow(self, other) ==
  IF other.kind = "fx" THEN PowFX(self, other) ELSE PowPlain(self, other)

\* FXnum.__rpow__: other ** self for a plain number other
RPow(self, other) ==
  IF ~IsOk(self) THEN self ELSE Pow(FXnum(other, self.family), self)

\* FXnum.exp
Exp(self) ==
  IF ~IsOk(self) THEN self
  ELSE Mul(RawExp(Sub(self, Plain(ToInt(self), 1))),
           PowPlain(FamExp1(self.family), Plain(ToInt(self), 1)))

RECURSIVE RawQsineLoop(_, _, _, _, _)
\* FXnum._rawQsine, the loop
RawQsineLoop(sn, term, x2, idx, fuel) ==
  IF fuel = 0 THEN Diverged(sn.family)
  ELSE With(Add(sn, term), LAMBDA sn2 :
       With(Mul(term, TrueDiv(x2, Plain(idx * (idx + 1), 1))), LAMBDA term2 :
         IF ~IsOk(sn2) THEN sn2
         ELSE IF ~IsOk(term2) THEN term2
         ELSE IF term2.scaledval = 0 THEN sn2
         ELSE RawQsineLoop(sn2, term2, x2, idx + 2, fuel - 1)))

\* FXnum._rawQsine(doCos, doHyp)
RawQsine(self, doCos, doHyp) ==
  IF ~IsOk(self) THEN self
  ELSE With(Zero(self.family), LAMBDA sn0 :
       With(Mul(IF doHyp THEN self ELSE Neg(self), self), LAMBDA x2 :
       With(Unity(self.family), LAMBDA one :
         IF ~IsOk(sn0) THEN sn0
         ELSE IF ~IsOk(x2) THEN x2
         ELSE IF ~IsOk(one) THEN one
         ELSE With(RawQsineLoop(sn0, one, x2, IF doCos THEN 1 ELSE 2, MaxIter),
                   LAMBDA sn :
                IF doCos THEN sn
                ELSE IF ~IsOk(sn) THEN sn ELSE Mul(self, sn)))))

\* FXnum._angnorm: (ang, idx, reflect); an exception is carried by ang
Angnorm(self) ==
  With(Lt(self, Plain(0, 1)), LAMBDA neg :
  With(IF neg.err # "none" THEN Raise(neg.err, self.family)
       ELSE IF neg.truth THEN Mul(self, Plain(-1, 1)) ELSE self, LAMBDA ang0 :
  With(TrueDiv(FamPi(self.family), Plain(2, 1)), LAMBDA halfpi :
  With(Add(TrueDiv(ang0, halfpi), Plain(1, 2)), LAMBDA quot :
  With(IF IsOk(quot) THEN ToInt(quot) ELSE 0, LAMBDA idx :
    [ang |-> IF ~IsOk(ang0) THEN ang0
             ELSE IF ~IsOk(halfpi) THEN halfpi
             ELSE IF ~IsOk(quot) THEN quot
             ELSE Sub(ang0, RMul(halfpi, Plain(idx, 1))),
     idx |-> idx,
     reflect |-> neg.err = "none" /\ neg.truth])))))

\* A quadrant index that is used as _angnorm returned it
Quadrant_unreduced(idx) == idx

\* FXnum.sin, cos, sincos: "idx = idx % 4"
Quadrant(idx) == idx % 4

\* The quadrant table of FXnum.sin; an index outside 0..3 is FXbrokenError
SinQuadrant(ang, idx) ==
  IF idx = 0 THEN RawQsine(ang, FALSE, FALSE)
  ELSE IF idx = 1 THEN RawQsine(ang, TRUE, FALSE)
  ELSE IF idx = 2 THEN Neg(RawQsine(ang, FALSE, FALSE))
  ELSE IF idx = 3 THEN Neg(RawQsine(ang, TRUE, FALSE))
  ELSE Raise("FXbrokenError", ang.family)

\* The quadrant table of FXnum.cos
CosQuadrant(ang, idx) ==
  IF idx = 0 THEN RawQsine(ang, TRUE, FALSE)
  ELSE IF idx = 1 THEN Neg(RawQsine(ang, FALSE, FALSE))
  ELSE IF idx = 2 THEN Neg(RawQsine(ang, TRUE, FALSE))
  ELSE IF idx = 3 THEN RawQsine(ang, FALSE, FALSE)
  ELSE Raise("FXbrokenError", ang.family)

\* FXnum.sin
Sin(self) ==
  IF ~IsOk(self) THEN self
  ELSE With(Angnorm(self), LAMBDA n :
         IF ~IsOk(n.ang) THEN n.ang
         ELSE With(SinQuadrant(n.ang, Quadrant(n.idx)), LAMBDA sn :
                IF n.reflect THEN Mul(sn, Plain(-1, 1)) ELSE sn))

\* FXnum.cos
Cos(self) ==
  IF ~IsOk(self) THEN self
  ELSE With(Angnorm(self), LAMBDA n :
         IF ~IsOk(n.ang) THEN n.ang ELSE CosQuadrant(n.ang, Quadrant(n.idx)))

\* The pair returned by FXnum.sincos; an exception is carried by both parts
Pair(sn, cs) ==
  IF ~IsOk(sn) THEN [sn |-> sn, cs |-> sn]
  ELSE IF ~IsOk(cs) THEN [sn |-> cs, cs |-> cs]
  ELSE [sn |-> sn, cs |-> cs]

\* A quadrant table whose fourth row lacks the negation of the cosine
SinCosQuadrant_unsigned(osn, ocs, idx) ==
  IF idx = 0 THEN Pair(osn, ocs)
  ELSE IF idx = 1 THEN Pair(ocs, Neg(osn))
  ELSE IF idx = 2 THEN Pair(Neg(osn), Neg(ocs))
  ELSE IF idx = 3 THEN Pair(ocs, osn)
  ELSE Pair(Raise("FXbrokenError", osn.family), Raise("FXbrokenError", osn.family))

\* The quadrant table of FXnum.sincos
SinCosQuadrant(osn, ocs, idx) ==
  IF idx = 0 THEN Pair(osn, ocs)
  ELSE IF idx = 1 THEN Pair(ocs, Neg(osn))
  ELSE IF idx = 2 THEN Pair(Neg(osn), Neg(ocs))
  ELSE IF idx = 3 THEN Pair(Neg(ocs), osn)
  ELSE Pair(Raise("FXbrokenError", osn.family), Raise("FXbrokenError", osn.family))

\* FXnum.sincos
SinCos(self) ==
  IF ~IsOk(self) THEN Pair(self, self)
  ELSE With(Angnorm(self), LAMBDA n :
         IF ~IsOk(n.ang) THEN Pair(n.ang, n.ang)
         ELSE With(RawQsine(n.ang, FALSE, FALSE), LAMBDA osn :
              With(RawQsine(n.ang, TRUE, FALSE), LAMBDA ocs :
                IF ~IsOk(osn) THEN Pair(osn, osn)
                ELSE IF ~IsOk(ocs) THEN Pair(ocs, ocs)
                ELSE With(SinCosQuadrant(osn, ocs, Quadrant(n.idx)), LAMBDA p :
                       IF ~IsOk(p.sn) THEN p
                       ELSE IF n.reflect THEN Pair(Mul(p.sn, Plain(-1, 1)), p.cs)
                       ELSE p))))

\* FXnum.tan
Tan(self) == With(SinCos(self), LAMBDA p : TrueDiv(p.sn, p.cs))

\* FXnum.atan
Atan(self) ==
  IF ~IsOk(self) THEN self
  ELSE With(Lt(self, Plain(0, 1)), LAMBDA neg :
       With(IfCmp(neg, self.family, Mul(self, Plain(-1, 1)), self), LAMBDA tan1 :
       With(Gt(tan1, Plain(1, 1)), LAMBDA big :
       With(IfCmp(big, self.family, RTrueDiv(tan1, Plain(1, 1)), tan1), LAMBDA tan2 :
       With(Gt(tan2, Plain(414, 1000)), LAMBDA mid :
       With(IfCmp(mid, self.family,
                  TrueDiv(Sub(Sqrt(RAdd(Mul(tan2, tan2), Plain(1, 1))),
                              Plain(1, 1)),
                          tan2),
                  tan2), LAMBDA tan3 :
       With(RawArctan(tan3), LAMBDA ang1 :
       With(IF mid.err = "none" /\ mid.truth
            THEN Mul(ang1, Plain(2, 1)) ELSE ang1, LAMBDA ang2 :
       With(IF big.err = "none" /\ big.truth
            THEN Sub(TrueDiv(FamPi(self.family), Plain(2, 1)), ang2)
            ELSE ang2, LAMBDA ang3 :
         IF ~IsOk(ang2) THEN ang2
         ELSE IF ~IsOk(ang3) THEN ang3
         ELSE IF neg.err = "none" /\ neg.truth
              THEN Mul(ang3, Plain(-1, 1)) ELSE ang3)))))))))

\* A half-angle branch that takes a negative tn2 for zero instead of
\* raising FXdomainError
HalfAngle_clamped(arg) ==
  With(TrueDiv(RSub(arg, Plain(1, 1)), RAdd(arg, Plain(1, 1))), LAMBDA tn2 :
    IF IsOk(tn2) /\ tn2.scaledval < 0 THEN Ok(tn2.family, 0) ELSE tn2)

\* The branch of FXnum.asin and FXnum.acos for arg > 0.5:
\* tn2 = (1 - arg) / (1 + arg), FXdomainError when tn2 < 0
HalfAngle(arg) ==
  With(TrueDiv(RSub(arg, Plain(1, 1)), RAdd(arg, Plain(1, 1))), LAMBDA tn2 :
  With(Lt(tn2, Plain(0, 1)), LAMBDA bad :
    IF ~IsOk(tn2) THEN tn2
    ELSE IF bad.err # "none" THEN Raise(bad.err, arg.family)
    ELSE IF bad.truth THEN Raise("FXdomainError", arg.family)
    ELSE tn2))

\* The angle of FXnum.asin for the argument arg >= 0
AsinBranch(arg, small) ==
  IF small.truth
  THEN Atan(TrueDiv(arg, Sqrt(RSub(Mul(arg, arg), Plain(1, 1)))))
  ELSE With(HalfAngle(arg), LAMBDA tn2 :
         IF ~IsOk(tn2) THEN tn2
         ELSE Sub(TrueDiv(FamPi(arg.family), Plain(2, 1)),
                  RMul(Atan(Sqrt(tn2)), Plain(2, 1))))

\* FXnum.asin
Asin(self) ==
  IF ~IsOk(self) THEN self
  ELSE With(Lt(self, Plain(0, 1)), LAMBDA neg :
       With(IfCmp(neg, self.family, Mul(self, Plain(-1, 1)), self), LAMBDA arg :
       With(Le(arg, Plain(1, 2)), LAMBDA small :
         IF ~IsOk(arg) THEN arg
         ELSE IF small.err # "none" THEN Raise(small.err, self.family)
         ELSE With(AsinBranch(arg, small), LAMBDA asn :
                IF ~IsOk(asn) THEN asn
                ELSE IF neg.err = "none" /\ neg.truth
                     THEN Mul(asn, Plain(-1, 1)) ELSE asn))))

\* The angle of FXnum.acos for the argument arg >= 0
AcosBranch(arg, small) ==
  IF small.truth
  THEN Sub(TrueDiv(FamPi(arg.family), Plain(2, 1)),
           Atan(TrueDiv(arg, Sqrt(RSub(Mul(arg, arg), Plain(1, 1))))))
  ELSE With(HalfAngle(arg), LAMBDA tn2 :
         IF ~IsOk(tn2) THEN tn2
         ELSE RMul(Atan(Sqrt(tn2)), Plain(2, 1)))

\* FXnum.acos
Acos(self) ==
  IF ~IsOk(self) THEN self
  ELSE With(Lt(self, Plain(0, 1)), LAMBDA neg :
       With(IfCmp(neg, self.family, Mul(self, Plain(-1, 1)), self), LAMBDA arg :
       With(Le(arg, Plain(1, 2)), LAMBDA small :
         IF ~IsOk(arg) THEN arg
         ELSE IF small.err # "none" THEN Raise(small.err, self.family)
         ELSE With(AcosBranch(arg, small), LAMBDA acs :
                IF ~IsOk(acs) THEN acs
                ELSE IF neg.err = "none" /\ neg.truth
                     THEN Sub(FamPi(self.family), acs) ELSE acs))))

\* ---------------------------------------------------------------------
\* The program: a client of the library.  A run starts with the families
\* and the two FXnum objects it works on already built, and executes one
\* statement of the library's interface; the record of the statement
\* (operator, operands after the call, result or exception) is kept in
\* last.  The accumulation loop of testIntRange is the second program.
\* ---------------------------------------------------------------------

VARIABLES
  fams,   \* the FXfamily instances (the index is the identity of the instance)
  x,      \* the FXnum object the name x is bound to: [family, scaledval]
  y,      \* the FXnum object the name y is bound to
  last,   \* the statement that has run: operator, operands, result or exception
  cnt     \* the loop counter of the accumulation loop

vars == << fams, x, y, last, cnt >>

\* Fraction bits handed to FXfamily()
MaxBits == 2
FracBits == 1 .. MaxBits

\* Integer-bit limits handed to FXfamily(): None, a limit, a negative limit
MaxIntBits == 1
IntBits == { None, Some(MaxIntBits), Some(-MaxIntBits) }

\* Plain numbers handed to the library: the integers -1 .. MaxPlain and the
\* fraction 1/PlainDen
PlainDen == 4
Plains == { Plain(n, 1) : n \in -1 .. MaxPlain } \cup { Plain(1, PlainDen) }

\* Plain numbers handed to the constructor only: fractions of either sign
\* that are not a multiple of the resolution of a family
Fractions == { Plain(3, 2 * PlainDen), Plain(-3, 2 * PlainDen) }

\* Largest |scaledval| of the FXnum object a run starts with as y
MaxY == 2

\* Largest number of passes through the accumulation loop
MaxCnt == 8

\* An FXnum object as the program holds it, and the absent object
Obj(o) == [family |-> o.family.id, scaledval |-> o.scaledval]
NoObj == [family |-> 0, scaledval |-> 0]

\* The FXnum object v with its family resolved
Val(v) == Ok(fams[v.family], v.scaledval)

\* The object a name is bound to
Name(n) == IF n = "x" THEN x ELSE y

\* The FXnum objects that exist in the families F: every scaled value the
\* family's validate() accepts
Nums(F) ==
  { v \in [family : 1 .. Len(F), scaledval : -MaxScaled .. MaxScaled] :
      validate(F[v.family], v.scaledval) }

\* The FXnum objects among them that the name y is bound to at the start
NumsY(F) == { v \in Nums(F) : v.scaledval \in -MaxY .. MaxY }

\* No statement has run
NoStmt == [op |-> "none", err |-> "none", l |-> "", r |-> "",
           a |-> NoObj, b |-> NoObj, p |-> Plain(0, 1), f |-> 0, g |-> 0,
           res |-> NoObj, res2 |-> NoObj, truth |-> FALSE, same |-> FALSE,
           out |-> << >>]

\* The memoised constants an outcome's family carries, stored on the instance
Fill(F, o) ==
  IF o.family.id \in 1 .. Len(F)
  THEN [F EXCEPT ![o.family.id] = MergeFam(@, o.family)]
  ELSE F

\* The outcome lies inside the model's integer range
InModel(o) == o.err # "huge"

\* An operator that stores its result in its operand
After_inplace(self, o) == IF IsOk(o) THEN Obj(o) ELSE self

\* The operand object after an operator or a method has run on it with
\* outcome o: no method of FXnum assigns self.scaledval or self.family
\* (sqrt shifts only its own temporary rt), so the operand is as it was
After(self, o) == self

\* The object a name is bound to after a statement with operands l and r
Bound(n, l, r, o) == IF n \in {l, r} THEN After(Name(n), o) ELSE Name(n)

\* The record of a statement: op on the operands named l and r (a name, "p"
\* for the plain number p, "" for none), with outcome o; same: the result is
\* the operand object itself
Record(op, l, r, p, f, o, same) ==
  [op |-> op, err |-> o.err, l |-> l, r |-> r,
   a |-> IF l \in {"x", "y"} THEN After(Name(l), o) ELSE NoObj,
   b |-> IF r \in {"x", "y"} THEN After(Name(r), o) ELSE NoObj,
   p |-> p, f |-> f, g |-> 0,
   res |-> IF IsOk(o) THEN Obj(o) ELSE NoObj, res2 |-> NoObj,
   truth |-> FALSE, same |-> IsOk(o) /\ same, out |-> << >>]

\* An expression statement whose value is an FXnum or an exception
Evaluate(op, l, r, p, f, o, same) ==
  /\ InModel(o)
  /\ fams' = Fill(fams, o)
  /\ x' = Bound("x", l, r, o)
  /\ y' = Bound("y", l, r, o)
  /\ last' = Record(op, l, r, p, f, o, same)
  /\ UNCHANGED cnt

\* An expression statement whose value is a truth value or an exception
Observe(op, l, r, p, f, g, c) ==
  /\ c.err # "huge"
  /\ x' = Bound("x", l, r, Raise(c.err, DefaultFamily))
  /\ y' = Bound("y", l, r, Raise(c.err, DefaultFamily))
  /\ last' = [Record(op, l, r, p, f, Raise(c.err, DefaultFamily), FALSE)
                EXCEPT !.g = g, !.truth = c.truth]
  /\ UNCHANGED << fams, cnt >>

\* An expression statement on x whose value is a plain Python value (an
\* int, a string): out is the tuple of its parts
Return(op, out) ==
  /\ x' = Bound("x", "x", "", Val(x))
  /\ y' = Bound("y", "x", "", Val(x))
  /\ last' = [Record(op, "x", "", Plain(0, 1), 0, Raise("none", DefaultFamily), FALSE)
                EXCEPT !.res = NoObj, !.out = out]
  /\ UNCHANGED << fams, cnt >>

\* "x op= v": FXnum defines no in-place method, so the statement is
\* x = x op v; an exception leaves x bound to the object it was bound to
AugAssign(op, r, p, o) ==
  /\ InModel(o)
  /\ fams' = Fill(fams, o)
  /\ x' = IF IsOk(o) THEN Obj(o) ELSE After(x, o)
  /\ y' = IF r = "y" THEN After(y, o) ELSE y
  /\ last' = Record("i" \o op, "x", r, p, 0, o, FALSE)

\* The families of a run: the default family of the module and at most
\* one family built by the client
FamSeqs ==
  { << DefaultFamily >> } \cup
  { << DefaultFamily, FXfamily(2, n, i) >> : n \in FracBits, i \in IntBits }

Init ==
  /\ fams \in FamSeqs
  /\ x \in Nums(fams)
  /\ y \in NumsY(fams)
  /\ last = NoStmt
  /\ cnt = 0

\* The run has not executed its statement yet
Ready == last.op = "none"

\* The families that exist
Fams == 1 .. Len(fams)

\* fam = FXfamily(n_bits, n_intbits)
NewFamily ==
  /\ Ready
  /\ Len(fams) < MaxFams
  /\ \E n_bits \in FracBits, n_intbits \in IntBits :
       fams' = Append(fams, FXfamily(Len(fams) + 1, n_bits, n_intbits))
  /\ last' = [NoStmt EXCEPT !.op = "FXfamily", !.f = Len(fams) + 1]
  /\ UNCHANGED << x, y, cnt >>

\* FXnum(p, fams[f]) for a plain number p
NewNum ==
  /\ Ready
  /\ \E p \in Plains \cup Fractions, f \in Fams :
       Evaluate("FXnum", "p", "", p, f, FXnum(p, fams[f]), FALSE)

\* FXnum(x, fams[f]): the explicit cast into a family
CastNum ==
  /\ Ready
  /\ \E f \in Fams :
       Evaluate("cast", "x", "", Plain(0, 1), f, FXnum(Val(x), fams[f]), FALSE)

\* The binary arithmetic operators, dispatched as Python does: the left
\* operand's method when it is an FXnum, the right operand's reflected
\* method when the left operand is a plain number
BinOps == {"add", "sub", "mul", "div"}
Binary(op, l, r) ==
  IF l.kind = "fx"
  THEN CASE op = "add" -> Add(l, r)
         [] op = "sub" -> Sub(l, r)
         [] op = "mul" -> Mul(l, r)
         [] op = "div" -> TrueDiv(l, r)
  ELSE CASE op = "add" -> RAdd(r, l)
         [] op = "sub" -> RSub(r, l)
         [] op = "mul" -> RMul(r, l)
         [] op = "div" -> RTrueDiv(r, l)

\* The comparison operators (an FXnum on the left)
CmpOps == {"eq", "ne", "lt", "le", "gt", "ge"}
Compare(op, l, r) ==
  CASE op = "eq" -> Eq(l, r)
    [] op = "ne" -> Ne(l, r)
    [] op = "lt" -> Lt(l, r)
    [] op = "le" -> Le(l, r)
    [] op = "gt" -> Gt(l, r)
    [] op = "ge" -> Ge(l, r)

\* The mathematical methods of one argument
MathFns == {"sqrt", "exp", "log", "sin", "cos", "tan", "asin", "acos", "atan"}
MathFn(fn, v) ==
  CASE fn = "sqrt" -> Sqrt(v)
    [] fn = "exp"  -> Exp(v)
    [] fn = "log"  -> Log(v)
    [] fn = "sin"  -> Sin(v)
    [] fn = "cos"  -> Cos(v)
    [] fn = "tan"  -> Tan(v)
    [] fn = "asin" -> Asin(v)
    [] fn = "acos" -> Acos(v)
    [] fn = "atan" -> Atan(v)

\* The constants of a family (properties of FXfamily)
FamConsts == {"unity", "zero", "exp1", "log2", "pi", "sqrt2"}
FamConst(c, F) ==
  CASE c = "unity" -> Unity(F)
    [] c = "zero"  -> Zero(F)
    [] c = "exp1"  -> FamExp1(F)
    [] c = "log2"  -> FamLog2(F)
    [] c = "pi"    -> FamPi(F)
    [] c = "sqrt2" -> FamSqrt2(F)

\* x op y
BinaryXY ==
  /\ Ready
  /\ \E op \in BinOps :
       Evaluate(op, "x", "y", Plain(0, 1), 0, Binary(op, Val(x), Val(y)), FALSE)

\* y op x
BinaryYX ==
  /\ Ready
  /\ \E op \in BinOps :
       Evaluate(op, "y", "x", Plain(0, 1), 0, Binary(op, Val(y), Val(x)), FALSE)

\* x op p, for a plain number p
BinaryXP ==
  /\ Ready
  /\ \E op \in BinOps, p \in Plains :
       Evaluate(op, "x", "p", p, 0, Binary(op, Val(x), p), FALSE)

\* p op x, for a plain number p
BinaryPX ==
  /\ Ready
  /\ \E op \in BinOps, p \in Plains :
       Evaluate(op, "p", "x", p, 0, Binary(op, p, Val(x)), FALSE)

\* x op= y
AugAssignY ==
  /\ Ready
  /\ \E op \in BinOps :
       AugAssign(op, "y", Plain(0, 1), Binary(op, Val(x), Val(y)))
  /\ UNCHANGED cnt

\* x op= p, for a plain number p
AugAssignP ==
  /\ Ready
  /\ \E op \in BinOps, p \in Plains :
       AugAssign(op, "p", p, Binary(op, Val(x), p))
  /\ UNCHANGED cnt

\* -x
NegStmt ==
  /\ Ready
  /\ Evaluate("neg", "x", "", Plain(0, 1), 0, Neg(Val(x)), FALSE)

\* abs(x): the object x itself when x >= 0
AbsStmt ==
  /\ Ready
  /\ Evaluate("abs", "x", "", Plain(0, 1), 0, AbsFX(Val(x)), x.scaledval >= 0)

\* +x: the object x itself
PosStmt ==
  /\ Ready
  /\ Evaluate("pos", "x", "", Plain(0, 1), 0, Pos(Val(x)), TRUE)

\* x << k
LShiftStmt ==
  /\ Ready
  /\ \E k \in 0 .. MaxShift :
       Evaluate("lshift", "x", "p", Plain(k, 1), 0, LShift(Val(x), k), FALSE)

\* x >> k
RShiftStmt ==
  /\ Ready
  /\ \E k \in 0 .. MaxShift :
       Evaluate("rshift", "x", "p", Plain(k, 1), 0, RShift(Val(x), k), FALSE)

\* x cmp y
CompareXY ==
  /\ Ready
  /\ \E op \in CmpOps :
       Observe(op, "x", "y", Plain(0, 1), 0, 0, Compare(op, Val(x), Val(y)))

\* x cmp p, for a plain number p
CompareXP ==
  /\ Ready
  /\ \E op \in CmpOps, p \in Plains :
       Observe(op, "x", "p", p, 0, 0, Compare(op, Val(x), p))

\* x.fn(): the object x itself for sqrt of zero
MathStmt ==
  /\ Ready
  /\ \E fn \in MathFns :
       Evaluate(fn, "x", "", Plain(0, 1), 0, MathFn(fn, Val(x)),
                fn = "sqrt" /\ x.scaledval = 0)

\* x ** y
PowXY ==
  /\ Ready
  /\ Evaluate("pow", "x", "y", Plain(0, 1), 0, Pow(Val(x), Val(y)), FALSE)

\* x ** p, for a plain number p
PowXP ==
  /\ Ready
  /\ \E p \in Plains :
       Evaluate("pow", "x", "p", p, 0, Pow(Val(x), p), FALSE)

\* p ** x, for a plain number p
PowPX ==
  /\ Ready
  /\ \E p \in Plains :
       Evaluate("pow", "p", "x", p, 0, RPow(Val(x), p), FALSE)

\* x.sincos()
SinCosStmt ==
  /\ Ready
  /\ LET pr == SinCos(Val(x))
     IN  /\ InModel(pr.cs)
         /\ fams' = Fill(fams, pr.sn)
         /\ x' = Bound("x", "x", "", pr.sn)
         /\ y' = Bound("y", "x", "", pr.sn)
         /\ last' = [Record("sincos", "x", "", Plain(0, 1), 0, pr.sn, FALSE)
                       EXCEPT !.res2 = IF IsOk(pr.cs) THEN Obj(pr.cs) ELSE NoObj]
  /\ UNCHANGED cnt

\* fams[f].c
ConstStmt ==
  /\ Ready
  /\ \E c \in FamConsts, f \in Fams :
       Evaluate(c, "", "", Plain(0, 1), f, FamConst(c, fams[f]), FALSE)

\* int(x)
IntStmt ==
  /\ Ready
  /\ Return("int", << ToInt(Val(x)) >>)

\* fams[f] == fams[g]
FamEqStmt ==
  /\ Ready
  /\ \E f \in Fams, g \in Fams :
       Observe("fameq", "", "", Plain(0, 1), f, g, Truth(FamEq(fams[f], fams[g])))

\* fams[f] != fams[g]
FamNeStmt ==
  /\ Ready
  /\ \E f \in Fams, g \in Fams :
       Observe("famne", "", "", Plain(0, 1), f, g, Truth(FamNe(fams[f], fams[g])))

\* fams[f] == p and fams[f] != x: a family compared with a plain number or
\* with an FXnum, neither of which has fraction_bits
FamEqObjStmt ==
  /\ Ready
  /\ \/ \E f \in Fams, p \in Plains :
          Observe("fameqobj", "", "p", p, f, 0, FamEqAny(fams[f], p))
     \/ \E f \in Fams :
          Observe("fameqobj", "", "x", Plain(0, 1), f, 0, FamEqAny(fams[f], Val(x)))

FamNeObjStmt ==
  /\ Ready
  /\ \/ \E f \in Fams, p \in Plains :
          Observe("famneobj", "", "p", p, f, 0, FamNeAny(fams[f], p))
     \/ \E f \in Fams :
          Observe("famneobj", "", "x", Plain(0, 1), f, 0, FamNeAny(fams[f], Val(x)))

Next ==
  \/ NewFamily
  \/ NewNum
  \/ CastNum
  \/ BinaryXY
  \/ BinaryYX
  \/ BinaryXP
  \/ BinaryPX
  \/ AugAssignY
  \/ AugAssignP
  \/ NegStmt
  \/ AbsStmt
  \/ PosStmt
  \/ LShiftStmt
  \/ RShiftStmt
  \/ CompareXY
  \/ CompareXP
  \/ MathStmt
  \/ PowXY
  \/ PowXP
  \/ PowPX
  \/ SinCosStmt
  \/ ConstStmt
  \/ FamEqStmt
  \/ FamNeStmt
  \/ FamEqObjStmt
  \/ FamNeObjStmt
  \/ IntStmt

Spec == Init /\ [][Next]_vars

\* ---------------------------------------------------------------------
\* Properties of the library, stated on the record of the statement that
\* has run.
\* ---------------------------------------------------------------------

\* The augmented assignments
AugOps == {"iadd", "isub", "imul", "idiv"}

\* The statement had an FXnum on both sides
TwoNums == last.l \in {"x", "y"} /\ last.r \in {"x", "y"}

\* The family of an FXnum object of the program
FamOf(v) == fams[v.family]

\* The family has an integer-bit limit i with f + i - 1 >= 0
Limited(F) ==
  ~IsNone(F.integer_bits) /\ F.fraction_bits + Get(F.integer_bits) - 1 >= 0

\* 2^(f+i-1) for such a family
Limit(F) == Pow2(F.fraction_bits + Get(F.integer_bits) - 1)

\* C1: when the families of the two FXnum operands differ in fraction_bits,
\* each of + - * / (also as op=) and each of the six comparisons raises
\* FXfamilyError and yields neither an FXnum nor a truth value; when the two
\* operands share one family instance, none of them raises FXfamilyError.
C1_FamilyMismatch ==
  (TwoNums /\ last.op \in BinOps \cup AugOps \cup CmpOps) =>
    /\ FamOf(last.a).fraction_bits # FamOf(last.b).fraction_bits
         => (last.err = "FXfamilyError" /\ last.res = NoObj /\ ~last.truth)
    /\ last.a.family = last.b.family => last.err # "FXfamilyError"

\* A comparison of two FXnums of families with different fraction_bits has
\* raised FXfamilyError
C1_Mismatch ==
  /\ TwoNums
  /\ last.op = "le"
  /\ FamOf(last.a).fraction_bits # FamOf(last.b).fraction_bits
  /\ last.err = "FXfamilyError"

\* C2 as claimed: a binary arithmetic operation on two FXnums whose
\* families are the same instance or are distinct instances with equal
\* fraction_bits does not raise FXfamilyError.
C2_EqualBitsSucceed ==
  (TwoNums /\ last.op \in BinOps \cup AugOps
     /\ FamEq(FamOf(last.a), FamOf(last.b)))
    => last.err # "FXfamilyError"

\* C2: a binary arithmetic operation on two FXnums raises FXfamilyError
\* exactly when their families are distinct instances, whether or not the
\* two instances have equal fraction_bits; on one shared instance it never
\* does.
C2_SameInstanceOnly ==
  (TwoNums /\ last.op \in BinOps \cup AugOps)
    => (last.err = "FXfamilyError" <=> last.a.family # last.b.family)

\* An addition of two FXnums of distinct families with equal fraction_bits
\* has raised FXfamilyError
C2_DistinctEqualBits ==
  /\ TwoNums
  /\ last.op = "add"
  /\ last.a.family # last.b.family
  /\ FamOf(last.a).fraction_bits = FamOf(last.b).fraction_bits
  /\ last.err = "FXfamilyError"

\* The FXnum object lies in the range of its family
InRange(v) ==
  (v # NoObj /\ Limited(FamOf(v)))
    => (-Limit(FamOf(v)) <= v.scaledval /\ v.scaledval < Limit(FamOf(v)))

\* The operators whose scaled result is a closed expression of the operands
ExactOps == {"add", "iadd", "sub", "isub", "mul", "imul", "neg", "abs", "lshift", "rshift"}

\* The scaled value the statement's operator computes from its FXnum operands
Exact ==
  CASE last.op \in {"add", "iadd"} -> last.a.scaledval + last.b.scaledval
    [] last.op \in {"sub", "isub"} -> last.a.scaledval - last.b.scaledval
    [] last.op \in {"mul", "imul"} ->
         (last.a.scaledval * last.b.scaledval + Pow2(FamOf(last.a).fraction_bits - 1))
           \div Pow2(FamOf(last.a).fraction_bits)
    [] last.op = "neg" -> -last.a.scaledval
    [] last.op = "abs" -> Abs(last.a.scaledval)
    [] last.op = "lshift" -> last.a.scaledval * Pow2(last.p.num)
    [] last.op = "rshift" -> last.a.scaledval \div Pow2(last.p.num)

\* C3: in a family with an integer-bit limit i and f + i - 1 >= 0, every
\* FXnum object (the operands, and the result of a construction, a cast, an
\* arithmetic operator, a shift, a negation, abs or a mathematical function)
\* has -2^(f+i-1) <= scaledval < 2^(f+i-1); an operator whose scaled result
\* lies outside that range raises FXoverflowError and returns no value, and
\* otherwise returns that result.
C3_Range ==
  /\ \A v \in {x, y, last.a, last.b, last.res, last.res2} : InRange(v)
  /\ (/\ last.op \in ExactOps
      /\ last.l \in {"x", "y"}
      /\ last.r \in {"x", "y"} => last.a.family = last.b.family
      /\ last.r = "p" => last.op \in {"lshift", "rshift"}
      /\ Limited(FamOf(last.a)))
       => IF -Limit(FamOf(last.a)) <= Exact /\ Exact < Limit(FamOf(last.a))
          THEN last.err = "none" /\ last.res.scaledval = Exact
          ELSE last.err = "FXoverflowError" /\ last.res = NoObj

\* A left shift in a family with an enforced limit has raised FXoverflowError
C3_Overflow ==
  /\ last.op = "lshift"
  /\ Limited(FamOf(last.a))
  /\ last.err = "FXoverflowError"

UnaryOps == {"neg", "abs", "pos"}
ShiftOps == {"lshift", "rshift"}
SameFamilyOps ==
  UnaryOps \cup BinOps \cup AugOps \cup ShiftOps \cup MathFns \cup {"pow", "sincos"}

\* C6: the FXnum returned by a unary operator, a binary operator (also
\* reflected, and with a plain operand promoted), a shift or a mathematical
\* function (sqrt, exp, log, pow, sin, cos, sincos, tan, asin, acos, atan)
\* applied to an FXnum of family F has the instance F as its family; so
\* have both FXnums returned by sincos.  (F is the family of the left
\* operand, or of the right operand when the left one is a plain number.)
C6_SameFamily ==
  (last.op \in SameFamilyOps /\ last.err = "none") =>
    /\ last.l \in {"x", "y"} => last.res.family = last.a.family
    /\ last.l = "p" => last.res.family = last.b.family
    /\ last.op = "sincos" => last.res2.family = last.a.family

\* sincos has returned two FXnums for an operand of a family built by the
\* client
C6_SinCos ==
  /\ last.op = "sincos"
  /\ last.err = "none"
  /\ last.a.family = 2
  /\ last.res.family = 2
  /\ last.res2.family = 2

\* C7: fam == fam' is true exactly when the two families have equal
\* fraction_bits, whatever their integer-bit limits, and fam != fam' is true
\* exactly when == is false.
C7_FamilyEquality ==
  /\ last.op = "fameq" =>
       (last.truth <=> fams[last.f].fraction_bits = fams[last.g].fraction_bits)
  /\ last.op = "famne" =>
       /\ last.truth <=> fams[last.f].fraction_bits # fams[last.g].fraction_bits
       /\ last.truth <=> ~FamEq(fams[last.f], fams[last.g])

\* Two families with equal fraction_bits and different integer-bit limits
\* have compared equal
C7_EqualDespiteLimit ==
  /\ last.op = "fameq"
  /\ last.truth
  /\ fams[last.f].fraction_bits = fams[last.g].fraction_bits
  /\ fams[last.f].integer_bits # fams[last.g].integer_bits

\* The expression evaluates to the FXnum object res
Gives(o, res) == IsOk(o) /\ Obj(o) = res

\* C8: for x and y of one family, when nothing overflows: x + y and x * y
\* are the values of y + x and y * x, the value of y - x is that of
\* -(x - y), 1 * x is x, and an operator applied to an FXnum and a plain
\* number (on either side) returns what it returns for the FXnum built
\* from that plain number.
C8_Algebra ==
  (last.op \in {"add", "sub", "mul"} /\ last.err = "none") =>
    /\ (TwoNums /\ last.op \in {"add", "mul"}) =>
         Gives(Binary(last.op, Val(last.b), Val(last.a)), last.res)
    /\ (TwoNums /\ last.op = "sub" /\ IsOk(Neg(Sub(Val(last.b), Val(last.a))))) =>
         Gives(Neg(Sub(Val(last.b), Val(last.a))), last.res)
    /\ (last.l \in {"x", "y"} /\ last.r = "p"
          /\ IsOk(FXnum(last.p, FamOf(last.a)))) =>
         Gives(Binary(last.op, Val(last.a), FXnum(last.p, FamOf(last.a))), last.res)
    /\ (last.l = "p" /\ IsOk(FXnum(last.p, FamOf(last.b)))) =>
         Gives(Binary(last.op, FXnum(last.p, FamOf(last.b)), Val(last.b)), last.res)
    /\ (last.l = "p" /\ last.op = "mul" /\ last.p = Plain(1, 1)) =>
         last.res = last.b

\* p - x has returned a non-zero FXnum for a plain number p
C8_PlainMinus ==
  /\ last.op = "sub"
  /\ last.l = "p"
  /\ last.err = "none"
  /\ last.res.scaledval # 0
  /\ last.b.scaledval # 0

\* The comparison returned True
Holds(c) == c.err = "none" /\ c.truth

\* -1 is an FXnum of the family
MinusOneFits(F) == Limited(F) => Pow2(F.fraction_bits) <= Limit(F)

\* C9 as claimed: for every FXnum x, also of a family with an integer-bit
\* limit, -x exists, x + (-x) == 0, (-x) + x == 0 and -1 * x == -x.
C9_NegationAlways ==
  /\ last.op = "neg" =>
       /\ last.err = "none"
       /\ Holds(Eq(Add(Val(last.a), Val(last.res)), Plain(0, 1)))
       /\ Holds(Eq(Add(Val(last.res), Val(last.a)), Plain(0, 1)))
  /\ (last.op = "mul" /\ last.l = "p" /\ last.p = Plain(-1, 1)) =>
       /\ last.err = "none"
       /\ Gives(Neg(Val(last.b)), last.res)

\* C9: for every FXnum x except scaledval = -2^(f+i-1) in a family with an
\* integer-bit limit i and f + i - 1 >= 0, -x exists, x + (-x) == 0 and
\* (-x) + x == 0; for that x, -x raises FXoverflowError.  -1 * x == -x for
\* the same x when -1 is an FXnum of the family; -1 * x raises
\* FXoverflowError for every other x.
C9_Negation ==
  /\ last.op = "neg" =>
       IF Limited(FamOf(last.a)) /\ last.a.scaledval = -Limit(FamOf(last.a))
       THEN last.err = "FXoverflowError"
       ELSE /\ last.err = "none"
            /\ Holds(Eq(Add(Val(last.a), Val(last.res)), Plain(0, 1)))
            /\ Holds(Eq(Add(Val(last.res), Val(last.a)), Plain(0, 1)))
  /\ (last.op = "mul" /\ last.l = "p" /\ last.p = Plain(-1, 1)) =>
       IF /\ MinusOneFits(FamOf(last.b))
          /\ ~(Limited(FamOf(last.b)) /\ last.b.scaledval = -Limit(FamOf(last.b)))
       THEN last.err = "none" /\ Gives(Neg(Val(last.b)), last.res)
       ELSE last.err = "FXoverflowError"

\* The negation of the smallest FXnum but one of a family with an enforced
\* limit is the largest FXnum of the family
C9_Negated ==
  /\ last.op = "neg"
  /\ Limited(FamOf(last.a))
  /\ last.a.scaledval = 1 - Limit(FamOf(last.a))
  /\ last.err = "none"
  /\ last.res.scaledval = Limit(FamOf(last.a)) - 1

\* Largest number of fraction bits added by a widening conversion
MaxWiden == 3

\* C10: converting the scaled value of an FXnum (positive, zero or
\* negative) of a family with f fraction bits to a family with g > f
\* fraction bits and the result back gives the scaled value; a conversion
\* between families of equal fraction_bits returns the scaled value.
C10_RoundTrip ==
  /\ (last.op = "cast" /\ last.err = "none") =>
       /\ fams[last.f].fraction_bits > FamOf(last.a).fraction_bits =>
            Convert(FamOf(last.a), fams[last.f], last.res.scaledval)
              = last.a.scaledval
       /\ fams[last.f].fraction_bits = FamOf(last.a).fraction_bits =>
            last.res.scaledval = last.a.scaledval
  /\ \A k \in 1 .. MaxWiden :
       Convert(FamOf(x),
               FXfamily(0, FamOf(x).fraction_bits + k, None),
               Convert(FXfamily(0, FamOf(x).fraction_bits + k, None),
                       FamOf(x), x.scaledval))
         = x.scaledval

\* A negative FXnum has been cast into a family with more fraction bits
C10_Widened ==
  /\ last.op = "cast"
  /\ last.err = "none"
  /\ fams[last.f].fraction_bits > FamOf(last.a).fraction_bits
  /\ last.a.scaledval < 0
  /\ last.res.scaledval # 0

\* ---------------------------------------------------------------------
\* The accumulation loop of testIntRange: in a family with an integer-bit
\* limit, x starts at zero and the increment y is added to it (or
\* subtracted from it) once per pass.
\* ---------------------------------------------------------------------

InitAcc ==
  /\ fams \in { F \in FamSeqs : Len(F) = 2 /\ ~IsNone(F[2].integer_bits) }
  /\ x = Obj(Zero(fams[2]))
  /\ y \in { v \in Nums(fams) : v.family = 2 /\ v.scaledval > 0 }
  /\ last = NoStmt
  /\ cnt = 0

\* cnt += 1; try: x += a
AccAdd ==
  /\ cnt < MaxCnt
  /\ last.op \in {"none", "iadd"}
  /\ cnt' = cnt + 1
  /\ AugAssign("add", "y", Plain(0, 1), Binary("add", Val(x), Val(y)))

\* cnt += 1; try: y -= a
AccSub ==
  /\ cnt < MaxCnt
  /\ last.op \in {"none", "isub"}
  /\ cnt' = cnt + 1
  /\ AugAssign("sub", "y", Plain(0, 1), Binary("sub", Val(x), Val(y)))

NextAcc == AccAdd \/ AccSub

SpecAcc == InitAcc /\ [][NextAcc]_vars

\* n < 2^e and n <= 2^e for an exponent e of either sign
Below(n, e) == IF e >= 0 THEN n < Pow2(e) ELSE n * Pow2(-e) < 1
AtMost(n, e) == IF e >= 0 THEN n <= Pow2(e) ELSE n * Pow2(-e) <= 1

\* f + i - 1 for the family of the accumulation loop
AccExp == fams[2].fraction_bits + Get(fams[2].integer_bits) - 1

\* C4: in a family with fraction_bits f and integer-bit limit i, the n-th
\* addition of the positive increment a to an accumulator that started at
\* zero succeeds if and only if n * a.scaledval < 2^(f+i-1), and the n-th
\* subtraction if and only if n * a.scaledval <= 2^(f+i-1); a step that
\* fails raises FXoverflowError and leaves the accumulator bound to the
\* object it was bound to.
C4_ExactBoundary ==
  /\ last.op = "iadd" =>
       /\ last.err = "none" <=> Below(cnt * y.scaledval, AccExp)
       /\ last.err = "none" => x.scaledval = cnt * y.scaledval
  /\ last.op = "isub" =>
       /\ last.err = "none" <=> AtMost(cnt * y.scaledval, AccExp)
       /\ last.err = "none" => x.scaledval = -(cnt * y.scaledval)
  /\ (last.op \in {"iadd", "isub"} /\ last.err # "none") =>
       (last.err = "FXoverflowError" /\ x = last.a)

\* C11 as claimed: FXnum(p, fam) for a plain number p stores p * scale
\* rounded to the nearest integer: the stored scaled value lies within one
\* half of p * scale.
C11_RoundsToNearest ==
  (last.op = "FXnum" /\ last.err = "none") =>
    2 * Abs(last.res.scaledval * last.p.den - last.p.num * fams[last.f].scale)
      <= last.p.den

\* C11: FXnum(p, fam) for a plain number p stores p * scale truncated
\* towards zero: the stored scaled value has the sign of p (or is zero), and
\* its magnitude is the largest integer not above |p * scale|; it is
\* p * scale when that is an integer.
C11_Truncates ==
  (last.op = "FXnum" /\ last.err = "none") =>
    /\ last.res.scaledval * last.p.num >= 0
    /\ Abs(last.res.scaledval) * last.p.den
         <= Abs(last.p.num) * fams[last.f].scale
    /\ Abs(last.p.num) * fams[last.f].scale
         < (Abs(last.res.scaledval) + 1) * last.p.den

\* A negative fraction that is not a multiple of the resolution has been
\* stored as the integer just above p * scale
C11_Truncated ==
  /\ last.op = "FXnum"
  /\ last.err = "none"
  /\ last.p.num < 0
  /\ last.res.scaledval * last.p.den > last.p.num * fams[last.f].scale
  /\ 2 * (last.res.scaledval * last.p.den - last.p.num * fams[last.f].scale)
       > last.p.den

\* C12: a / b for two FXnums of one family and b # 0 returns the FXnum
\* nearest to the exact quotient: q * b.scaledval lies within
\* |b.scaledval| / 2 of a.scaledval * scale, q being the scaled value of
\* the result.
C12_NearestQuotient ==
  (TwoNums /\ last.op \in {"div", "idiv"} /\ last.err = "none") =>
    2 * Abs(last.res.scaledval * last.b.scaledval
              - last.a.scaledval * FamOf(last.a).scale)
      <= Abs(last.b.scaledval)

\* C13: int(x) truncates towards zero: it has the sign of x (or is zero)
\* and its magnitude is the largest integer not above |scaledval| / scale,
\* i.e. the floor of scaledval / scale for scaledval >= 0 and the ceiling
\* for scaledval < 0; x >> k takes the floor of scaledval / 2^k for either
\* sign.
C13_IntTruncates ==
  /\ last.op = "int" =>
       /\ last.out[1] * last.a.scaledval >= 0
       /\ Abs(last.out[1]) * FamOf(last.a).scale <= Abs(last.a.scaledval)
       /\ Abs(last.a.scaledval) < (Abs(last.out[1]) + 1) * FamOf(last.a).scale
  /\ (last.op = "rshift" /\ last.err = "none") =>
       /\ last.res.scaledval * Pow2(last.p.num) <= last.a.scaledval
       /\ last.a.scaledval < (last.res.scaledval + 1) * Pow2(last.p.num)

\* int(x) is 0 for a negative x above -1, where the right shift of the
\* scaled value by fraction_bits is -1
C13_NegativeFraction ==
  /\ last.op = "int"
  /\ last.a.scaledval < 0
  /\ last.out[1] = 0
  /\ Shr(last.a.scaledval, FamOf(last.a).fraction_bits) = -1

\* ---------------------------------------------------------------------
\* The printing program: str(x) and repr(x) of an FXnum of a family with
\* up to MaxTextBits fraction bits (testPrinting, testRepresentation).
\* ---------------------------------------------------------------------

\* Largest number of fraction bits of a family whose numbers are printed
MaxTextBits == 6

\* Largest |scaledval| of a number that is printed
MaxText == 70

InitText ==
  /\ fams \in { << DefaultFamily, FXfamily(2, n, i) >> :
                  n \in 1 .. MaxTextBits, i \in IntBits }
  /\ x \in { v \in [family : {2}, scaledval : -MaxText .. MaxText] :
               validate(fams[2], v.scaledval) }
  /\ y = x
  /\ last = NoStmt
  /\ cnt = 0

\* str(x)
StrStmt ==
  /\ Ready
  /\ Return("str", Str(Val(x)))

\* repr(x)
ReprStmt ==
  /\ Ready
  /\ Return("repr", Repr(Val(x)))

NextText == StrStmt \/ ReprStmt

SpecText == InitText /\ [][NextText]_vars

RECURSIVE Pow10(_)
\* 10^n
Pow10(n) == IF n <= 0 THEN 1 ELSE 10 * Pow10(n - 1)

RECURSIVE Number(_)
\* The number written by a sequence of decimal digits
Number(ds) ==
  IF ds = << >> THEN 0
  ELSE 10 * Number(SubSeq(ds, 1, Len(ds) - 1)) + ds[Len(ds)]

\* The parts of the string returned by str(x), and the fractional part of
\* |x| in units of the resolution
StrDigitsOut == last.out[4]
StrFrac == Abs(last.a.scaledval) - last.out[2] * FamOf(last.a).scale
StrCap == FamOf(last.a).fraction_bits \div 3

\* C14: str(x) is '-' exactly when scaledval < 0, then the integer part
\* floor(|scaledval| / scale), then the decimal expansion of the fractional
\* part truncated (not rounded) to at most fraction_bits // 3 digits; the
\* digits stop as soon as the remainder is zero, there is no decimal point
\* when the fractional part is zero, and a value whose expansion needs no
\* more than fraction_bits // 3 digits is printed exactly and without a
\* trailing zero.
C14_Decimal ==
  last.op = "str" =>
    /\ last.out[1] <=> last.a.scaledval < 0
    /\ last.out[2] >= 0
    /\ last.out[2] * FamOf(last.a).scale <= Abs(last.a.scaledval)
    /\ Abs(last.a.scaledval) < (last.out[2] + 1) * FamOf(last.a).scale
    /\ Len(StrDigitsOut) <= StrCap
    /\ \A i \in 1 .. Len(StrDigitsOut) : StrDigitsOut[i] \in 0 .. 9
    /\ Number(StrDigitsOut) * FamOf(last.a).scale
         <= StrFrac * Pow10(Len(StrDigitsOut))
    /\ StrFrac * Pow10(Len(StrDigitsOut))
         < (Number(StrDigitsOut) + 1) * FamOf(last.a).scale
    /\ Len(StrDigitsOut) < StrCap =>
         Number(StrDigitsOut) * FamOf(last.a).scale
           = StrFrac * Pow10(Len(StrDigitsOut))
    /\ Len(StrDigitsOut) > 0 =>
         Number(SubSeq(StrDigitsOut, 1, Len(StrDigitsOut) - 1)) * FamOf(last.a).scale
           < StrFrac * Pow10(Len(StrDigitsOut) - 1)
    /\ StrFrac = 0 => (~last.out[3] /\ StrDigitsOut = << >>)
    /\ (\E m \in 0 .. StrCap : (StrFrac * Pow10(m)) % FamOf(last.a).scale = 0) =>
         /\ Number(StrDigitsOut) * FamOf(last.a).scale
              = StrFrac * Pow10(Len(StrDigitsOut))
         /\ Len(StrDigitsOut) > 0 => StrDigitsOut[Len(StrDigitsOut)] # 0

\* A negative number has been printed with two digits after the point that
\* fall short of its value
C14_TruncatedDigits ==
  /\ last.op = "str"
  /\ last.out[1]
  /\ Len(StrDigitsOut) = 2
  /\ Number(StrDigitsOut) * FamOf(last.a).scale < StrFrac * Pow10(2)

\* C15: the text of repr(x) holds the fraction_bits and the integer_bits of
\* x.family and the scaled value of x, and the FXnum that eval() builds
\* from the text (an FXnum of a new family), cast into x.family, exists and
\* is equal to x: same family instance and same scaled value.
C15_ReprRoundTrip ==
  last.op = "repr" =>
    /\ last.out[1] = FamOf(last.a).fraction_bits
    /\ last.out[2] = FamOf(last.a).integer_bits
    /\ last.out[3] = last.a.scaledval
    /\ IsOk(EvalRepr(0, last.out))
    /\ Gives(FXnum(EvalRepr(0, last.out), FamOf(last.a)), last.a)
    /\ Holds(Eq(Val(last.a), FXnum(EvalRepr(0, last.out), FamOf(last.a))))

\* repr of a negative FXnum of a family with an integer-bit limit
C15_NegativeLimited ==
  /\ last.op = "repr"
  /\ last.a.scaledval < 0
  /\ ~IsNone(last.out[2])
  /\ last.out[3] = last.a.scaledval

\* ------------------------------------------------------ the square-root program
\* A second program: one family with up to MaxRootBits fraction bits, one
\* number x of up to MaxRoot units of resolution, and one statement that
\* takes its square root
MaxRootBits == 4
MaxRoot == 60

InitRoot ==
  /\ fams \in { << DefaultFamily, FXfamily(2, n, i) >> :
                  n \in 1 .. MaxRootBits, i \in IntBits }
  /\ x \in { v \in [family : {2}, scaledval : -MaxRoot .. MaxRoot] :
               validate(fams[2], v.scaledval) }
  /\ y = x
  /\ last = NoStmt
  /\ cnt = 0

\* x.sqrt()
RootStmt ==
  /\ Ready
  /\ Evaluate("sqrt", "x", "", Plain(0, 1), 0, Sqrt(Val(x)),
              x.scaledval = 0)

\* rt = x.sqrt(); rt * rt  (testSqrt: "self.assertAlmostEqual(x, rt * rt)")
RootSquareStmt ==
  /\ Ready
  /\ With(Sqrt(Val(x)), LAMBDA rt :
       /\ InModel(Mul(rt, rt))
       /\ fams' = Fill(fams, rt)
       /\ x' = Bound("x", "x", "", rt)
       /\ y' = Bound("y", "x", "", rt)
       /\ last' = [Record("sqrtsq", "x", "", Plain(0, 1), 0, Mul(rt, rt), FALSE)
                     EXCEPT !.res2 = IF IsOk(rt) THEN Obj(rt) ELSE NoObj]
       /\ UNCHANGED cnt)

NextRoot == RootStmt \/ RootSquareStmt

SpecRoot == InitRoot /\ [][NextRoot]_vars

C16_SmallestRoot ==
  /\ last.op = "sqrt"
  /\ last.err = "none"
  /\ last.a.scaledval = 1
  /\ last.res.scaledval > 1

\* C17 (as stated): for x >= 0 the scaled value of x.sqrt() * x.sqrt()
\* differs from the scaled value of x by at most 1
C17_WithinOneUnit ==
  last.op = "sqrtsq" /\ last.err = "none" =>
    Abs(last.res.scaledval - last.a.scaledval) <= 1

\* C17 (amended): for x >= 0 the scaled value of x.sqrt() * x.sqrt() differs
\* from the scaled value of x by at most 1 + x.sqrt() units, that is
\* scale * |product - x| <= root + scale in scaled values
C17_WithinRootUnits ==
  last.op = "sqrtsq" /\ last.err = "none" =>
    FamOf(last.a).scale * Abs(last.res.scaledval - last.a.scaledval)
      <= last.res2.scaledval + FamOf(last.a).scale

\* C17 witness: the square of the root of a large x is off by more than one
\* unit and within the amended bound
C17_LargeOff ==
  /\ last.op = "sqrtsq" /\ last.err = "none"
  /\ last.a.scaledval > 16 * FamOf(last.a).scale
  /\ Abs(last.res.scaledval - last.a.scaledval) > 1

\* ------------------------------------------------------ the trigonometric program
\* A third program: one family with up to MaxTrigBits fraction bits, without
\* limit or with TrigIntBits integer bits, one number x of up to MaxAngle
\* (radians, more than a full turn), and one mathematical method applied to it
MaxTrigBits == 3
MaxAngle == 7
TrigIntBits == 4

InitTrig ==
  /\ fams \in { << DefaultFamily, FXfamily(2, n, i) >> :
                  n \in 1 .. MaxTrigBits, i \in { None, Some(TrigIntBits) } }
  /\ x \in { v \in [family : {2}, scaledval : -(MaxAngle * Pow2(MaxTrigBits)) ..
                                              MaxAngle * Pow2(MaxTrigBits)] :
               /\ Abs(v.scaledval) <= MaxAngle * fams[2].scale
               /\ validate(fams[2], v.scaledval) }
  /\ y = x
  /\ last = NoStmt
  /\ cnt = 0

NextTrig == MathStmt \/ SinCosStmt

SpecTrig == InitTrig /\ [][NextTrig]_vars

\* C18: for every angle x, sincos(x) is the pair (sin(x), cos(x)): when it
\* returns, its two scaled values are those of the separately computed
\* x.sin() and x.cos(), and it raises only the exception that x.sin() or
\* x.cos() raises (FXoverflowError, in a family with an integer-bit limit);
\* sin(0) is 0 and cos(0) is 1 exactly.
C18_SinCosPair ==
  last.op = "sincos" =>
    With(Sin(Val(last.a)), LAMBDA sn :
    With(Cos(Val(last.a)), LAMBDA cs :
      /\ last.err = "none" => Gives(sn, last.res) /\ Gives(cs, last.res2)
      /\ last.err # "none" =>
           /\ ~IsOk(sn) \/ ~IsOk(cs)
           /\ last.err = (IF ~IsOk(sn) THEN sn.err ELSE cs.err)
           /\ last.err = "FXoverflowError"
           /\ Limited(FamOf(last.a))
      /\ (last.a.scaledval = 0 /\ last.err = "none") =>
           /\ last.res.scaledval = 0
           /\ last.res2.scaledval = FamOf(last.a).scale))

\* C18 witness: sincos returned a non-zero sine and a non-zero cosine for a
\* negative angle of the fourth quadrant index
C18_NegativeFourthQuadrant ==
  /\ last.op = "sincos"
  /\ last.err = "none"
  /\ last.a.scaledval < 0
  /\ Angnorm(Val(last.a)).idx % 4 = 3
  /\ Angnorm(Val(last.a)).reflect
  /\ last.res.scaledval # 0
  /\ last.res2.scaledval # 0

C19_AcosOne ==
  /\ last.op = "acos"
  /\ last.a.scaledval = FamOf(last.a).scale
  /\ last.err = "none"
  /\ last.res.scaledval = 0

\* ------------------------------------------------------ the constants program
\* A fourth program: a sequence of up to MaxSteps statements on one number
\* x, each an access to a constant of a family, a mathematical method of x
\* (which reads the constants it needs) or a comparison of the two families
MaxSteps == 3

\* The constants a family stores in a slot (_exp1, _log2, _pi, _sqrt2)
Stored == {"exp1", "log2", "pi", "sqrt2"}

\* The property of constant c runs its computation on family F: the four
\* stored constants when the slot is None, unity and zero on every access
Computes(c, F) == IF c \in Stored THEN IsNone(F[c]) ELSE TRUE

\* The family as FXfamily() built it: every slot None
Fresh(F) == FXfamily(F.id, F.fraction_bits, F.integer_bits)

InitCache ==
  /\ fams \in { << DefaultFamily, FXfamily(2, n, i) >> :
                  n \in FracBits, i \in { None, Some(TrigIntBits) } }
  /\ x \in { v \in NumsY(fams) : v.family = 2 }
  /\ y = x
  /\ last = NoStmt
  /\ cnt = 0

\* fams[f].c
CacheConst ==
  /\ cnt < MaxSteps
  /\ \E c \in FamConsts, f \in Fams :
       With(FamConst(c, fams[f]), LAMBDA o :
         /\ InModel(o)
         /\ fams' = Fill(fams, o)
         /\ last' = [Record(c, "", "", Plain(0, 1), f, o, FALSE)
                       EXCEPT !.g = IF Computes(c, fams[f]) THEN 1 ELSE 0]
         /\ cnt' = cnt + 1
         /\ UNCHANGED << x, y >>)

\* The methods of the constants program: exp reads exp1, log reads log2, sin
\* and atan read pi, sqrt reads no constant
CacheFns == {"exp", "log", "sin", "atan", "sqrt"}

\* x.fn()
CacheMath ==
  /\ cnt < MaxSteps
  /\ \E fn \in CacheFns :
       With(MathFn(fn, Val(x)), LAMBDA o :
         /\ InModel(o)
         /\ fams' = Fill(fams, o)
         /\ last' = Record(fn, "x", "", Plain(0, 1), 0, o, FALSE)
         /\ cnt' = cnt + 1
         /\ UNCHANGED << x, y >>)

\* fams[f] == fams[g]
CacheEq ==
  /\ cnt < MaxSteps
  /\ \E f \in Fams, g \in Fams :
       /\ last' = [Record("fameq", "", "", Plain(0, 1), f,
                          Raise("none", DefaultFamily), FALSE)
                     EXCEPT !.res = NoObj, !.g = g,
                            !.truth = FamEq(fams[f], fams[g])]
       /\ cnt' = cnt + 1
       /\ UNCHANGED << fams, x, y >>

NextCache == CacheConst \/ CacheMath \/ CacheEq

SpecCache == InitCache /\ [][NextCache]_vars

\* C20 (as stated): each of the six constants is computed at most once per
\* family; in particular an access that directly follows a successful
\* access to the same constant of the same family runs no computation.
C20_SixComputedOnce ==
  [][ (last'.op \in FamConsts /\ last.op = last'.op /\ last.f = last'.f
         /\ last.err = "none") => last'.g = 0 ]_vars

\* C20 (amended): each of the four constants exp1, log2, pi, sqrt2 is
\* computed at most once per family instance: a slot that is filled never
\* changes; an access computes exactly when the slot is empty, stores what
\* it returns, and returns the stored value when the slot is filled; unity
\* and zero have no slot and are built on every access; filling the slots
\* changes neither the result of a mathematical method nor family equality.
C20_StoredComputedOnce ==
  [][ /\ \A f \in Fams, c \in Stored :
           ~IsNone(fams[f][c]) => fams'[f][c] = fams[f][c]
      /\ last'.op \in Stored =>
           /\ last'.g = 1 <=> IsNone(fams[last'.f][last'.op])
           /\ last'.err = "none" =>
                fams'[last'.f][last'.op] = Some(last'.res.scaledval)
           /\ ~IsNone(fams[last'.f][last'.op]) =>
                /\ last'.err = "none"
                /\ last'.res.scaledval = Get(fams[last'.f][last'.op])
      /\ last'.op \in {"unity", "zero"} =>
           /\ last'.g = 1
           /\ fams' = fams
      /\ last'.op \in CacheFns =>
           With(MathFn(last'.op, Ok(Fresh(fams[x.family]), x.scaledval)),
                LAMBDA o :
             /\ o.err = last'.err
             /\ IsOk(o) => o.scaledval = last'.res.scaledval)
      /\ last'.op = "fameq" =>
           (last'.truth <=> FamEq(Fresh(fams[last'.f]), Fresh(fams[last'.g])))
    ]_vars

\* C20 witness: pi was read from its filled slot by a later access, after a
\* method of x had filled the slot
C20_PiFromSlot ==
  /\ last.op = "pi"
  /\ last.g = 0
  /\ last.err = "none"
  /\ last.f = 2
  /\ cnt = MaxSteps
  /\ fams[2].pi = Some(last.res.scaledval)
  /\ ~IsNone(fams[2].exp1)

\* ------------------------------------------------------ the precision program
\* A fifth program (testConstPrecision): fam0 = FXfamily(res) and
\* fam_extra = FXfamily(res + extra_bits), with res up to MaxPrecBits and
\* extra_bits up to MaxExtra, and one statement that reads the same
\* constant of both
MaxPrecBits == 6
MaxExtra == 5

InitPrec ==
  /\ fams \in { << FXfamily(1, res, None), FXfamily(2, res + extra_bits, None) >> :
                  res \in 1 .. MaxPrecBits, extra_bits \in 1 .. MaxExtra }
  /\ x = NoObj
  /\ y = NoObj
  /\ last = NoStmt
  /\ cnt = 0

\* x0 = getattr(fam0, field).scaledval;
\* x_extra = getattr(fam_extra, field).scaledval
\* (res: the constant of fam0, res2: the constant of fam_extra)
PrecStmt ==
  /\ last.op = "none"
  /\ \E field \in Stored :
       With(FamConst(field, fams[1]), LAMBDA c0 :
       With(FamConst(field, fams[2]), LAMBDA c_extra :
         /\ InModel(c0)
         /\ InModel(c_extra)
         /\ fams' = Fill(Fill(fams, c0), c_extra)
         /\ last' = [Record(field, "", "", Plain(0, 1), 1, c0, FALSE)
                       EXCEPT !.g = 2,
                              !.res2 = IF IsOk(c_extra) THEN Obj(c_extra) ELSE NoObj,
                              !.err = IF IsOk(c0) THEN c_extra.err ELSE c0.err]
         /\ UNCHANGED << x, y, cnt >>))

NextPrec == PrecStmt

SpecPrec == InitPrec /\ [][NextPrec]_vars

\* C21: each stored constant is correct to the last bit of its family: the
\* constant of FXfamily(r) equals the constant of FXfamily(r + k) shifted
\* right by the k extra bits, for every constant, every r and every k
C21_LastBit ==
  (last.op \in Stored /\ last.err = "none") =>
    last.res.scaledval =
      Shr(last.res2.scaledval, fams[2].fraction_bits - fams[1].fraction_bits)

\* ------------------------------------------------------ the Newton program
\* A sixth program: x.sqrt() run one pass of its Newton loop at a time.  y
\* is the local rt, last.op is the position ("none": not called, "loop":
\* inside "while True", "sqrt": returned or raised) and cnt counts the
\* passes up to MaxNewton
MaxNewton == 6

InitNewton ==
  /\ fams \in { << DefaultFamily, FXfamily(2, n, i) >> :
                  n \in 1 .. MaxRootBits, i \in IntBits }
  /\ x \in { v \in [family : {2}, scaledval : -MaxRoot .. MaxRoot] :
               validate(fams[2], v.scaledval) }
  /\ y = NoObj
  /\ last = NoStmt
  /\ cnt = 0

\* The call up to the loop: the domain test, the return of zero, the crude
\* first approximation
SqrtEnter ==
  /\ last.op = "none"
  /\ \E rt \in { FXnumScaled(fams[2], Pow2(fams[2].fraction_bits \div 2)) } :
       IF x.scaledval <= 0 \/ ~IsOk(rt)
       THEN /\ last' = Record("sqrt", "x", "", Plain(0, 1), 0,
                              IF x.scaledval <= 0 THEN Sqrt(Val(x)) ELSE rt,
                              x.scaledval = 0)
            /\ UNCHANGED y
       ELSE /\ y' = [family |-> 2,
                     scaledval |-> SqrtGuess(x.scaledval, rt.scaledval)]
            /\ last' = [NoStmt EXCEPT !.op = "loop"]
  /\ UNCHANGED << fams, x, cnt >>

\* One pass of "while True": delta = (rt - self / rt) >> 1; rt -= delta;
\* if delta.scaledval == 0: break; after the loop "return rt"
SqrtIterate ==
  /\ last.op = "loop"
  /\ \E self \in { Val(x) }, rt \in { Val(y) } :
     \E delta \in { NewtonDelta(self, rt) } :
       \E rt2 \in { Sub(rt, delta) } :
         /\ InModel(rt2)
         /\ y' = IF IsOk(rt2) THEN Obj(rt2) ELSE y
         /\ last' = IF IsOk(rt2) /\ delta.scaledval # 0
                    THEN last
                    ELSE Record("sqrt", "x", "", Plain(0, 1), 0, rt2, FALSE)
  /\ cnt' = IF cnt < MaxNewton THEN cnt + 1 ELSE cnt
  /\ UNCHANGED << fams, x >>

NextNewton == SqrtEnter \/ SqrtIterate

\* The call is one synchronous computation: it keeps running
SpecNewton == InitNewton /\ [][NextNewton]_vars /\ WF_vars(NextNewton)

\* C22: sqrt terminates for every input with a positive scaled value: the
\* Newton loop reaches a correction of exactly zero after finitely many
\* passes, the estimate rt is never zero inside the loop, so no pass divides
\* by zero.  (In a family with an integer-bit limit a pass may instead end
\* the call with FXoverflowError, the overflow rule of C3.)
C22_Terminates ==
  /\ <>(last.op = "sqrt")
  /\ [](last.op = "loop" => y.scaledval # 0)
  /\ [](last.op = "sqrt" =>
          /\ last.err \in {"none", "FXoverflowError", "FXdomainError"}
          /\ (x.scaledval > 0 /\ ~Limited(fams[2])) => last.err = "none"
          /\ last.err = "FXoverflowError" => Limited(fams[2])
          /\ (x.scaledval > 0 /\ last.err = "none") => last.res = y)

\* C22 witness: the loop took at least four passes before its correction
\* was zero, and returned a positive root
C22_FourPasses ==
  /\ last.op = "sqrt" /\ last.err = "none"
  /\ cnt >= 4
  /\ last.res.scaledval > 0

\* C23: FXbrokenError is unreachable: for every angle the quadrant index
\* that sin, cos and sincos use after the reduction is one of 0, 1, 2, 3,
\* and none of sin, cos, sincos, tan raises FXbrokenError
C23_NeverBroken ==
  last.op \in {"sin", "cos", "sincos", "tan"} =>
    /\ last.err # "FXbrokenError"
    /\ Quadrant(Angnorm(Val(last.a)).idx) \in 0 .. 3

\* C23 witness: the sine of an angle of more than a full turn, whose index
\* before the reduction is 4 or more, was returned
C23_FullTurn ==
  /\ last.op = "sin" /\ last.err = "none"
  /\ Angnorm(Val(last.a)).idx >= 4

\* The family of the FXnum operand of a binary statement
OpFam == FamOf(IF last.l = "p" THEN last.b ELSE last.a)

\* A binary operator ran in a family with an enforced limit, on two FXnum
\* objects of that family or on one of them and a plain number
BoundedBinary ==
  /\ last.op \in BinOps
  /\ "p" \notin {last.l, last.r} => last.a.family = last.b.family
  /\ Limited(OpFam)

\* The scaled value lies in the range of the family of the statement
Fits(v) == -Limit(OpFam) <= v /\ v < Limit(OpFam)

\* The operands as exact fractions of the unit of resolution
LeftN == IF last.l = "p" THEN last.p.num * OpFam.scale ELSE last.a.scaledval
LeftD == IF last.l = "p" THEN last.p.den ELSE 1
RightN == IF last.r = "p" THEN last.p.num * OpFam.scale ELSE last.b.scaledval
RightD == IF last.r = "p" THEN last.p.den ELSE 1

\* The exact result as a fraction ResN / ResD of the unit of resolution
\* (ResD = 0 for a division by zero)
ResN ==
  CASE last.op = "add" -> LeftN * RightD + RightN * LeftD
    [] last.op = "sub" -> LeftN * RightD - RightN * LeftD
    [] last.op = "mul" -> LeftN * RightN
    [] last.op = "div" ->
         IF RightN < 0 THEN -(LeftN * RightD * OpFam.scale)
         ELSE LeftN * RightD * OpFam.scale
ResD ==
  CASE last.op \in {"add", "sub"} -> LeftD * RightD
    [] last.op = "mul" -> LeftD * RightD * OpFam.scale
    [] last.op = "div" -> LeftD * Abs(RightN)

\* The scaled values nearest to the exact result (two of them on a tie)
Rounded ==
  { q \in ((2 * ResN + ResD) \div (2 * ResD)) - 1 .. ((2 * ResN + ResD) \div (2 * ResD)) :
      2 * Abs(q * ResD - ResN) <= ResD }

\* The plain operand as the constructor promotes it: int(p * scale)
Promoted == TruncDiv(last.p.num * OpFam.scale, last.p.den)

\* The scaled value the operator computes from the scaled values l and r of
\* its operands (r # 0 for a division)
Computed(l, r) ==
  CASE last.op = "add" -> l + r
    [] last.op = "sub" -> l - r
    [] last.op = "mul" -> (l * r + OpFam.roundup) \div OpFam.scale
    [] last.op = "div" ->
         IF r > 0 THEN (l * OpFam.scale + OpFam.roundup) \div r
         ELSE (-(l * OpFam.scale + OpFam.roundup)) \div (-r)

\* C24 (as stated): a binary operator on a bounded family raises
\* FXoverflowError only when the rounded result lies outside the range of
\* the family; whenever the rounded result is representable the operator
\* returns it, also with a plain operand promoted into the family
C24_OnlyResultOverflows ==
  (BoundedBinary /\ ResD # 0) =>
    /\ last.err = "FXoverflowError" => \A q \in Rounded : ~Fits(q)
    /\ (\E q \in Rounded : Fits(q)) =>
         last.err = "none" /\ last.res.scaledval \in Rounded

\* C24 (amended): a binary operator on a bounded family raises
\* FXoverflowError exactly when the scaled value of a plain operand promoted
\* into the family, or the scaled value the operator computes, lies outside
\* the range of the family; otherwise it returns the computed value (or
\* raises ZeroDivisionError for a zero divisor)
C24_OperandOrResultOverflows ==
  BoundedBinary =>
    With(IF last.l = "p" THEN Promoted ELSE last.a.scaledval, LAMBDA l :
    With(IF last.r = "p" THEN Promoted ELSE last.b.scaledval, LAMBDA r :
      IF ~Fits(l) \/ ~Fits(r)
      THEN last.err = "FXoverflowError" /\ last.res = NoObj
      ELSE IF last.op = "div" /\ r = 0
      THEN last.err = "ZeroDivisionError" /\ last.res = NoObj
      ELSE IF Fits(Computed(l, r))
      THEN last.err = "none" /\ last.res.scaledval = Computed(l, r)
      ELSE last.err = "FXoverflowError" /\ last.res = NoObj))

\* C24 witness: a product with a plain number that does not fit the family
\* raised FXoverflowError although the rounded product is representable
C24_PromotionOverflow ==
  /\ BoundedBinary /\ last.op = "mul" /\ last.r = "p"
  /\ ~Fits(Promoted)
  /\ \E q \in Rounded : Fits(q)
  /\ last.err = "FXoverflowError"

\* ------------------------------------------------------ the cast program
\* A seventh program (testFamilyConversion): two families of up to
\* MaxCastBits fraction bits each, a number x of the first, and one
\* statement that casts x into the second
MaxCastBits == 4

InitCast ==
  /\ fams \in { << FXfamily(1, n0, None), FXfamily(2, n1, i) >> :
                  n0 \in 1 .. MaxCastBits, n1 \in 1 .. MaxCastBits, i \in IntBits }
  /\ x \in { v \in Nums(fams) : v.family = 1 }
  /\ y = x
  /\ last = NoStmt
  /\ cnt = 0

\* fp1 = FXnum(fp0, fam1)
CastStmt ==
  /\ Ready
  /\ Evaluate("cast", "x", "", Plain(0, 1), 2, FXnum(Val(x), fams[2]), FALSE)

NextCast == CastStmt

SpecCast == InitCast /\ [][NextCast]_vars

\* The sign of an integer
Sign(v) == IF v > 0 THEN 1 ELSE IF v < 0 THEN -1 ELSE 0

\* C25: casting preserves zero and sign: a scaled value of 0 is converted to
\* 0 between any two families; a value v widened by k >= 1 bits becomes w
\* with |w - v * 2^k| <= 2^(k-1) and the sign of v; narrowing by k bits
\* gives floor(v / 2^k)
C25_ZeroAndSign ==
  (last.op = "cast" /\ last.err = "none") =>
    With(fams[2].fraction_bits - fams[1].fraction_bits, LAMBDA k :
      /\ last.a.scaledval = 0 => last.res.scaledval = 0
      /\ k >= 1 =>
           /\ Abs(last.res.scaledval - last.a.scaledval * Pow2(k)) <= Pow2(k - 1)
           /\ Sign(last.res.scaledval) = Sign(last.a.scaledval)
      /\ k <= -1 => last.res.scaledval = last.a.scaledval \div Pow2(-k))

\* C26: every FXfamily built with an integer-bit limit enforces an overflow
\* bound: whatever n_bits >= 1 and n_intbits (also negative, also with
\* n_bits + n_intbits - 1 < 0), its validate rejects some scaled value
C26_LimitEnforced ==
  (last.op = "FXfamily" /\ ~IsNone(fams[last.f].integer_bits)) =>
    \E v \in -Pow2(MaxBits + MaxIntBits) .. Pow2(MaxBits + MaxIntBits) :
      ~validate(fams[last.f], v)

\* C27: comparing an FXfamily with an object that has no fraction_bits is
\* total: == returns False, != returns True, and neither raises
C27_Total ==
  /\ last.op = "fameqobj" => (last.err = "none" /\ ~last.truth)
  /\ last.op = "famneobj" => (last.err = "none" /\ last.truth)

====
